---- MODULE Spec2Model ----
(***************************************************************************)
(* Model of the continuous-collision-detection core of rigid-ipc:          *)
(*   - the scene container ccd::State (src/src/state.cpp): scene edits,    *)
(*     impact detection, sorting, lifting to edge-edge impacts, pruning,   *)
(*     collision volumes;                                                  *)
(*   - the narrow-phase edge-vertex time-of-impact wrappers                *)
(*     (src/unnamed/part_001, part_002) driving the certified interval     *)
(*     root finder.                                                        *)
(*                                                                         *)
(* Numbers.  Coordinates are integers counted in tenths of a world unit    *)
(* (the default displacement of add_vertex, (0, -0.1), is <<0, -1>>).      *)
(* Times are integers 0..TimeScale, TimeScale standing for t = 1.          *)
(* Indices are 0-based as in the C++ code; At(s, i) reads entry i.         *)
(***************************************************************************)
EXTENDS Integers, Sequences, FiniteSets, TLC

(***************************************************************************)
(* Bounds of the model                                                     *)
(***************************************************************************)
\* grid instants per time step seen by State's detection (TimeScale is t = 1)
TimeScale == 4
\* grid instants per time step seen by the root finder (ToiScale is t = 1)
ToiScale == 8
\* largest time-of-impact tolerance, in root-finder grid instants
MaxTol == 2
\* scene edits (load, add, set, move) explored in one behaviour
MaxEdits == 2
\* largest number of vertices / edges an edit may grow the scene to
MaxVertices == 4
MaxEdges == 3

(***************************************************************************)
(* Program constants                                                       *)
(***************************************************************************)
\* State::State(): canvas_width(10), canvas_height(10), in world units
canvas_width == 10
canvas_height == 10
\* tenths per world unit: add_vertex writes the displacement (0.0, -0.1)
TenthsPerUnit == 10

(***************************************************************************)
(* Small helpers                                                           *)
(***************************************************************************)
Min(a, b) == IF a <= b THEN a ELSE b
Max(a, b) == IF a >= b THEN a ELSE b
At(s, i) == s[i + 1]
SetMin(S) == CHOOSE x \in S : \A y \in S : x <= y
SetMax(S) == CHOOSE x \in S : \A y \in S : x >= y
Sub(a, b) == <<a[1] - b[1], a[2] - b[2]>>
Add(a, b) == <<a[1] + b[1], a[2] + b[2]>>
Dot(a, b) == a[1] * b[1] + a[2] * b[2]
Cross(a, b) == a[1] * b[2] - a[2] * b[1]
Zero2 == <<0, 0>>

RECURSIVE SumSeq(_)
SumSeq(s) == IF s = <<>> THEN 0 ELSE Head(s) + SumSeq(Tail(s))

RECURSIVE Flatten(_)
Flatten(ss) == IF ss = <<>> THEN <<>> ELSE Head(ss) \o Flatten(Tail(ss))

\* floor of the square root, by bisection on [lo, hi)
RECURSIVE IsqrtIn(_, _, _)
IsqrtIn(n, lo, hi) ==
    IF hi - lo <= 1 THEN lo
    ELSE LET mid == (lo + hi) \div 2
         IN IF mid * mid <= n THEN IsqrtIn(n, mid, hi) ELSE IsqrtIn(n, lo, mid)
Isqrt(n) == IsqrtIn(n, 0, Min(n, 46340) + 1)

(***************************************************************************)
(* State of ccd::State                                                     *)
(***************************************************************************)
VARIABLES
    vertices,           \* Eigen::MatrixX2d, one <<x, y>> per row
    edges,              \* Eigen::MatrixX2i, one <<i, j>> per row
    displacements,      \* Eigen::MatrixX2d
    opt_displacements,  \* Eigen::MatrixX2d
    volumes,            \* Eigen::VectorXd, one entry per edge
    volume_grad,        \* Eigen::MatrixXd, [rows, cols, val]
    edge_impact_map,    \* Eigen::VectorXi, index into ee_impacts or -1
    ev_impacts,         \* EdgeVertexImpacts
    ee_impacts,         \* EdgeEdgeImpacts
    num_pruned_impacts, \* int
    volume_epsilon,     \* double, the time scale of the minimal volume
    last_op,            \* the State operation that ran last
    results_before,     \* results were held when the last operation began
    num_edits,          \* scene edits performed so far
    sort_build          \* how this build's std::sort leaves equal elements

state_vars == <<vertices, edges, displacements, opt_displacements, volumes,
                volume_grad, edge_impact_map, ev_impacts, ee_impacts,
                num_pruned_impacts, volume_epsilon, last_op, results_before,
                num_edits, sort_build>>

(***************************************************************************)
(* State of one narrow-phase query (time_of_impact)                        *)
(***************************************************************************)
VARIABLES
    ccd_in,        \* arguments of compute_edge_vertex_time_of_impact
    rf_pc,         \* "idle", "loop" or "done"
    xs,            \* the root finder's LIFO stack, top last
    toi_interval,  \* Interval toi_interval, the out-parameter
    is_impacting,  \* bool returned by interval_root_finder
    toi,           \* double& toi
    num_evals      \* evaluations of f made so far

toi_vars == <<ccd_in, rf_pc, xs, toi_interval, is_impacting, toi, num_evals>>

(***************************************************************************)
(* One call of a numeric kernel or solver                                  *)
(***************************************************************************)
VARIABLES
    fn_op,   \* the function called last, "none" before any call
    fn_in,   \* its arguments
    fn_out   \* what it returned

fn_vars == <<fn_op, fn_in, fn_out>>

vars == <<state_vars, toi_vars, fn_vars>>

ZeroMatrix(r, c) ==
    [rows |-> r, cols |-> c, val |-> [p \in (1..r) \X (1..c) |-> 0]]
ZeroRows(n) == [i \in 1..n |-> Zero2]

(***************************************************************************)
(* Edge-vertex detection on linear trajectories                            *)
(* (ccd::detect_edge_vertex_collisions, called at state.cpp:169)           *)
(***************************************************************************)
Sign(x) == IF x > 0 THEN 1 ELSE IF x < 0 THEN -1 ELSE 0

\* TimeScale times the position of vertex v at grid instant t
PosAt(V, U, v, t) ==
    <<TimeScale * At(V, v)[1] + t * At(U, v)[1],
      TimeScale * At(V, v)[2] + t * At(U, v)[2]>>

\* signed distance (up to the edge's length) from vertex k to the line of e
LineDistAt(V, U, E, e, k, t) ==
    LET pi == PosAt(V, U, At(E, e)[1], t)
        pj == PosAt(V, U, At(E, e)[2], t)
        pk == PosAt(V, U, k, t)
    IN Cross(Sub(pk, pi), Sub(pj, pi))

\* numerator and denominator of alpha, the position of k along e
AlphaAt(V, U, E, e, k, t) ==
    LET pi == PosAt(V, U, At(E, e)[1], t)
        pj == PosAt(V, U, At(E, e)[2], t)
        pk == PosAt(V, U, k, t)
    IN <<Dot(Sub(pk, pi), Sub(pj, pi)), Dot(Sub(pj, pi), Sub(pj, pi))>>

\* the vertex is on the segment at instant t, or crosses it before t + 1
HitAt(V, U, E, e, k, t) ==
    LET a == AlphaAt(V, U, E, e, k, t)
        d == LineDistAt(V, U, E, e, k, t)
    IN /\ 0 <= a[1] /\ a[1] <= a[2]
       /\ \/ d = 0
          \/ /\ t < TimeScale
             /\ Sign(d) * Sign(LineDistAt(V, U, E, e, k, t + 1)) < 0

HitTimes(V, U, E, e, k) == {t \in 0..TimeScale : HitAt(V, U, E, e, k, t)}

\* alpha in TimeScale-ths of the edge
AlphaOf(V, U, E, e, k, t) ==
    LET a == AlphaAt(V, U, E, e, k, t)
    IN IF a[2] = 0 THEN 0 ELSE (TimeScale * a[1]) \div a[2]

EdgeVertexImpact(V, U, E, e, k) ==
    LET t == SetMin(HitTimes(V, U, E, e, k))
    IN [time |-> t, edge_index |-> e, vertex_index |-> k,
        alpha |-> AlphaOf(V, U, E, e, k, t)]

\* every row of E names two different vertices of V
SceneWellFormed(V, E) ==
    \A r \in 1..Len(E) :
        /\ E[r][1] \in 0..(Len(V) - 1)
        /\ E[r][2] \in 0..(Len(V) - 1)
        /\ E[r][1] # E[r][2]

\* all (edge, vertex) pairs, edge-major, the vertex not an endpoint
BruteForcePairs(V, E) ==
    LET nV == Len(V)
        all == [n \in 1..(Len(E) * nV) |-> <<(n - 1) \div nV, (n - 1) % nV>>]
    IN SelectSeq(all, LAMBDA p : p[2] # At(E, p[1])[1] /\ p[2] # At(E, p[1])[2])

DetectImpacts(V, U, E) ==
    LET hits == SelectSeq(BruteForcePairs(V, E),
                          LAMBDA p : HitTimes(V, U, E, p[1], p[2]) # {})
    IN [n \in 1..Len(hits) |-> EdgeVertexImpact(V, U, E, hits[n][1], hits[n][2])]

(***************************************************************************)
(* Sorting (state.cpp:172-174)                                             *)
(***************************************************************************)
\* the comparator handed to std::sort: earlier time first, nothing else
compare_impacts_by_time(i1, i2) == i1.time < i2.time

\* std::sort leaves the order of equal elements unspecified and a build fixes
\* it: one build keeps their order, another reverses it
TieBreaks == {"kept", "reversed"}

\* the call's omission: the detected order is kept
StdSort_omitted(s) == s

\* element i of s is placed before element j
SortsBefore(s, i, j) ==
    \/ compare_impacts_by_time(s[i], s[j])
    \/ /\ ~compare_impacts_by_time(s[j], s[i])
       /\ IF sort_build = "kept" THEN i < j ELSE i > j

StdSort(s) ==
    [k \in 1..Len(s) |->
       s[CHOOSE i \in 1..Len(s) :
           Cardinality({j \in 1..Len(s) : SortsBefore(s, j, i)}) = k - 1]]

(***************************************************************************)
(* Lifting to edge-edge impacts (called at state.cpp:177-178)              *)
(***************************************************************************)
\* the edge-edge impacts one edge-vertex impact is lifted to
LiftImpact(E, ev) ==
    LET inc == SelectSeq([n \in 1..Len(E) |-> n - 1],
                         LAMBDA i : At(E, i)[1] = ev.vertex_index
                                    \/ At(E, i)[2] = ev.vertex_index)
    IN [n \in 1..Len(inc) |->
          [time |-> ev.time, edge_a |-> ev.edge_index, alpha_a |-> ev.alpha,
           edge_b |-> inc[n],
           alpha_b |-> IF At(E, inc[n])[1] = ev.vertex_index
                       THEN 0 ELSE TimeScale]]

convert_edge_vertex_to_edge_edge_impacts(E, evs) ==
    Flatten([n \in 1..Len(evs) |-> LiftImpact(E, evs[n])])

(***************************************************************************)
(* Pruning (called at state.cpp:182-183)                                   *)
(***************************************************************************)
NamesEdge(imp, e) == imp.edge_a = e \/ imp.edge_b = e

\* a slip: the last impact of an edge is kept instead of the earliest
prune_impacts_latest(ees, map) ==
    [n \in 1..Len(map) |->
       LET S == {i \in 1..Len(ees) : NamesEdge(ees[i], n - 1)}
       IN IF S = {} THEN -1 ELSE SetMax(S) - 1]

\* for every edge the index of its earliest impact, -1 without one
prune_impacts(ees, map) ==
    [n \in 1..Len(map) |->
       LET S == {i \in 1..Len(ees) : NamesEdge(ees[i], n - 1)}
       IN IF S = {} THEN -1
          ELSE (CHOOSE i \in S : \A j \in S :
                   \/ ees[i].time < ees[j].time
                   \/ ees[i].time = ees[j].time /\ i <= j) - 1]

NumPruned(map) == Cardinality({n \in 1..Len(map) : map[n] >= 0})

(***************************************************************************)
(* Collision volumes (src/src/ccd/collision_volume.hpp)                    *)
(***************************************************************************)
\* V = (1 - toi) sqrt(eps^2 |e(toi)|^2 + (U_ij . e(toi)^perp)^2), returned
\* times TimeScale^3; toi and alpha are counted in TimeScale-ths
\* the edge at the time of impact has no length: the kernel raises the
\* degenerate-edge error instead of returning a volume
degenerate_edge(Vi, Vj, Ui, Uj, t) ==
    /\ TimeScale * (Vj[1] - Vi[1]) + t * (Uj[1] - Ui[1]) = 0
    /\ TimeScale * (Vj[2] - Vi[2]) + t * (Uj[2] - Ui[2]) = 0

\* a slip: the displacement term is taken signed, not through the root of its
\* square, and the minimal-volume term is left out
space_time_collision_volume_signed(Vi, Vj, Ui, Uj, t, alpha, epsilon) ==
    LET e_toi == <<TimeScale * (Vj[1] - Vi[1]) + t * (Uj[1] - Ui[1]),
                   TimeScale * (Vj[2] - Vi[2]) + t * (Uj[2] - Ui[2])>>
        e_rot90 == <<e_toi[2], -e_toi[1]>>
        U_ij == <<TimeScale * Ui[1] + alpha * (Uj[1] - Ui[1]),
                  TimeScale * Ui[2] + alpha * (Uj[2] - Ui[2])>>
    IN (TimeScale - t) * Dot(U_ij, e_rot90)

space_time_collision_volume(Vi, Vj, Ui, Uj, t, alpha, epsilon) ==
    LET e_toi == <<TimeScale * (Vj[1] - Vi[1]) + t * (Uj[1] - Ui[1]),
                   TimeScale * (Vj[2] - Vi[2]) + t * (Uj[2] - Ui[2])>>
        e_rot90 == <<e_toi[2], -e_toi[1]>>
        U_ij == <<TimeScale * Ui[1] + alpha * (Uj[1] - Ui[1]),
                  TimeScale * Ui[2] + alpha * (Uj[2] - Ui[2])>>
        ue == Dot(U_ij, e_rot90)
    IN (TimeScale - t)
         * Isqrt(epsilon * epsilon * TimeScale * TimeScale * Dot(e_toi, e_toi)
                 + ue * ue)

collision_volume_fixed_toi(V, U, E, impact, edge_id, epsilon) ==
    LET i == At(E, edge_id)[1]
        j == At(E, edge_id)[2]
        alpha == IF impact.edge_a = edge_id THEN impact.alpha_a
                 ELSE impact.alpha_b
    IN space_time_collision_volume(At(V, i), At(V, j), At(U, i), At(U, j),
                                   impact.time, alpha, epsilon)

\* a slip: the map entry is used as an index without the test for -1, and an
\* edge without an impact reads the first record
compute_volumes_fixed_toi_unguarded(V, U, E, ees, map, epsilon) ==
    [n \in 1..Len(E) |->
       IF ees = <<>> THEN 0
       ELSE collision_volume_fixed_toi(V, U, E, At(ees, Max(map[n], 0)), n - 1,
                                       epsilon)]

compute_volumes_fixed_toi(V, U, E, ees, map, epsilon) ==
    [n \in 1..Len(E) |->
       IF map[n] < 0 THEN 0
       ELSE collision_volume_fixed_toi(V, U, E, At(ees, map[n]), n - 1, epsilon)]

\* no edge with an impact is degenerate at its time of impact, so the volume
\* loop runs through without an error
VolumesDefined(V, U, E, ees, map) ==
    \A n \in 1..Len(E) :
        map[n] >= 0 =>
            ~degenerate_edge(At(V, At(E, n - 1)[1]), At(V, At(E, n - 1)[2]),
                             At(U, At(E, n - 1)[1]), At(U, At(E, n - 1)[2]),
                             At(ees, map[n]).time)

\* the gradient's support: column e is zero without an impact, and otherwise
\* marks the coordinates of the vertices of the two edges of e's impact
compute_volumes_gradient(V, U, E, ees, map, epsilon) ==
    LET nV == Len(V)
        touches(n, v) ==
            LET imp == At(ees, map[n])
            IN \E e \in {imp.edge_a, imp.edge_b} :
                   At(E, e)[1] = v \/ At(E, e)[2] = v
    IN [rows |-> 2 * nV, cols |-> Len(E),
        val |-> [p \in (1..(2 * nV)) \X (1..Len(E)) |->
                   IF map[p[2]] < 0 THEN 0
                   ELSE IF touches(p[2], (p[1] - 1) % nV) THEN 1 ELSE 0]]

(***************************************************************************)
(* Inputs of the scene edits                                               *)
(***************************************************************************)
AddPositions == {<<0, 0>>, <<4, 0>>, <<1, 1>>}
MoveDeltas == {<<0, 1>>, <<0, -1>>}
\* the rows a caller edits: an edge's end and a moving vertex
VertexChoices(V) == {i \in {0, 2} : i < Len(V)}
NewEdgeMatrices ==
    { << <<0, 1>> >>, << <<0, 1>>, <<2, 3>> >>, << <<1, 1>> >>, << <<0, 7>> >> }

\* scene files: two vertices falling on an edge at different times; the same
\* at equal times, next to an edge nothing touches; a scene wider than the
\* canvas
SceneFiles ==
    { [vertices |-> << <<0, 0>>, <<4, 0>>, <<1, 1>>, <<3, 1>> >>,
       edges |-> << <<0, 1>>, <<2, 3>> >>,
       displacements |-> << <<0, 0>>, <<0, 0>>, <<0, -1>>, <<0, -2>> >>],
      [vertices |-> << <<0, 0>>, <<4, 0>>, <<1, 1>>, <<3, 1>>, <<0, 3>>, <<4, 3>> >>,
       edges |-> << <<0, 1>>, <<2, 3>>, <<4, 5>> >>,
       displacements |-> << <<0, 0>>, <<0, 0>>, <<0, -1>>, <<0, -1>>,
                            <<0, 0>>, <<0, 0>> >>],
      [vertices |-> << <<0, 0>>, <<400, 0>> >>,
       edges |-> << <<0, 1>> >>,
       displacements |-> << <<32, 0>>, <<0, 0>> >>] }

(***************************************************************************)
(* ccd::State operations (src/src/state.cpp)                               *)
(***************************************************************************)
\* a slip: the map is resized but not set to -1
reset_impacts_stale_map(V, E) ==
    /\ volumes' = [n \in 1..Len(E) |-> 0]
    /\ edge_impact_map' =
         [n \in 1..Len(E) |->
            IF n <= Len(edge_impact_map) THEN edge_impact_map[n] ELSE -1]
    /\ volume_grad' = ZeroMatrix(2 * Len(V), Len(E))
    /\ ev_impacts' = <<>>
    /\ ee_impacts' = <<>>

\* a slip: the volumes are resized but not set to zero
reset_impacts_stale_volumes(V, E) ==
    /\ volumes' = [n \in 1..Len(E) |-> IF n <= Len(volumes) THEN volumes[n] ELSE 0]
    /\ edge_impact_map' = [n \in 1..Len(E) |-> -1]
    /\ volume_grad' = ZeroMatrix(2 * Len(V), Len(E))
    /\ ev_impacts' = <<>>
    /\ ee_impacts' = <<>>

\* a slip: volume_grad is zeroed but keeps the size it had
reset_impacts_unsized_grad(V, E) ==
    /\ volumes' = [n \in 1..Len(E) |-> 0]
    /\ edge_impact_map' = [n \in 1..Len(E) |-> -1]
    /\ volume_grad' = ZeroMatrix(volume_grad.rows, volume_grad.cols)
    /\ ev_impacts' = <<>>
    /\ ee_impacts' = <<>>

\* State::reset_impacts, run on the vertices V and edges E the caller left
reset_impacts(V, E) ==
    /\ volumes' = [n \in 1..Len(E) |-> 0]
    /\ edge_impact_map' = [n \in 1..Len(E) |-> -1]
    /\ volume_grad' = ZeroMatrix(2 * Len(V), Len(E))
    /\ ev_impacts' = <<>>
    /\ ee_impacts' = <<>>

\* State::reset_scene after the caller left vertices V, displacements U
ResetSceneOn(V, U, E) ==
    /\ reset_impacts(V, E)
    /\ opt_displacements' = ZeroRows(Len(U))

\* the fit-to-canvas step of load_scene: <<vertices, displacements>>
FitToCanvas(V, U) ==
    LET n == Len(V)
        all == V \o [i \in 1..n |-> Add(V[i], U[i])]
        col(c) == {all[i][c] : i \in 1..(2 * n)}
        bbox == <<SetMax(col(1)) - SetMin(col(1)), SetMax(col(2)) - SetMin(col(2))>>
        sum == <<SumSeq([i \in 1..(2 * n) |-> all[i][1]]),
                 SumSeq([i \in 1..(2 * n) |-> all[i][2]])>>
        cw == canvas_width * TenthsPerUnit
        ch == canvas_height * TenthsPerUnit
        \* scale = min(cw * 0.5 / bbox[0], ch * 0.5 / bbox[1]) as <<num, den>>
        scale == IF bbox[2] = 0 \/ (bbox[1] # 0 /\ cw * bbox[2] <= ch * bbox[1])
                 THEN <<cw, 2 * bbox[1]>> ELSE <<ch, 2 * bbox[2]>>
        fit(v, c) == ((2 * n * v[c] - sum[c]) * scale[1]) \div (2 * n * scale[2])
        shrink(u, c) == (u[c] * scale[1]) \div scale[2]
    IN IF bbox[1] > cw \/ bbox[2] > ch
       THEN <<[i \in 1..n |-> <<fit(V[i], 1), fit(V[i], 2)>>],
              [i \in 1..n |-> <<shrink(U[i], 1), shrink(U[i], 2)>>]>>
       ELSE <<V, U>>

\* some result of a detection or a volume computation is held
HoldsResults ==
    \/ ev_impacts # <<>>
    \/ ee_impacts # <<>>
    \/ \E n \in 1..Len(edge_impact_map) : edge_impact_map[n] # -1
    \/ \E n \in 1..Len(volumes) : volumes[n] # 0
    \/ \E p \in DOMAIN volume_grad.val : volume_grad.val[p] # 0

Ran(op) ==
    /\ last_op' = op
    /\ results_before' = HoldsResults
    /\ UNCHANGED sort_build
    /\ UNCHANGED fn_vars

Edit(op) ==
    /\ num_edits < MaxEdits
    /\ num_edits' = num_edits + 1
    /\ Ran(op)
    /\ UNCHANGED <<num_pruned_impacts, volume_epsilon>>
    /\ UNCHANGED toi_vars

load_scene ==
    \E f \in SceneFiles :
        LET fitted == FitToCanvas(f.vertices, f.displacements)
        IN /\ vertices' = fitted[1]
           /\ edges' = f.edges
           /\ displacements' = fitted[2]
           /\ ResetSceneOn(fitted[1], fitted[2], f.edges)
           /\ Edit("load_scene")

reset_scene ==
    /\ ResetSceneOn(vertices, displacements, edges)
    /\ Ran("reset_scene")
    /\ UNCHANGED <<vertices, edges, displacements, num_pruned_impacts,
                   volume_epsilon, num_edits>>
    /\ UNCHANGED toi_vars

add_vertex ==
    \E position \in AddPositions :
        /\ Len(vertices) < MaxVertices
        /\ vertices' = Append(vertices, position)
        /\ displacements' = Append(displacements, <<0, -1>>)
        /\ opt_displacements' = ZeroRows(Len(vertices) + 1)
        /\ reset_impacts(vertices', edges)
        /\ UNCHANGED edges
        /\ Edit("add_vertex")

add_edges ==
    \E new_edges \in NewEdgeMatrices :
        /\ Len(edges) + Len(new_edges) <= MaxEdges
        /\ edges' = edges \o new_edges
        /\ reset_impacts(vertices, edges')
        /\ UNCHANGED <<vertices, displacements, opt_displacements>>
        /\ Edit("add_edges")

set_vertex_position ==
    \E vertex_idx \in VertexChoices(vertices) : \E position \in AddPositions :
        /\ vertices' = [vertices EXCEPT ![vertex_idx + 1] = position]
        /\ reset_impacts(vertices', edges)
        /\ UNCHANGED <<edges, displacements, opt_displacements>>
        /\ Edit("set_vertex_position")

move_vertex ==
    \E vertex_idx \in VertexChoices(vertices) : \E delta \in MoveDeltas :
        /\ vertices' = [vertices EXCEPT ![vertex_idx + 1] = Add(@, delta)]
        /\ reset_impacts(vertices', edges)
        /\ UNCHANGED <<edges, displacements, opt_displacements>>
        /\ Edit("move_vertex")

move_displacement ==
    \E vertex_idx \in VertexChoices(vertices) : \E delta \in MoveDeltas :
        /\ displacements' = [displacements EXCEPT ![vertex_idx + 1] = Add(@, delta)]
        /\ reset_impacts(vertices, edges)
        /\ UNCHANGED <<vertices, edges, opt_displacements>>
        /\ Edit("move_displacement")

\* a slip: the map is pruned before the impacts are lifted, from the list the
\* last detection left
DetectOutcome_prune_first(V, U, E, map) ==
    [ev |-> StdSort(DetectImpacts(V, U, E)),
     ee |-> convert_edge_vertex_to_edge_edge_impacts(E,
                StdSort(DetectImpacts(V, U, E))),
     map |-> prune_impacts(ee_impacts, map)]

\* a slip: the detection adds to the list the last detection left
DetectOutcome_appending(V, U, E, map) ==
    [ev |-> StdSort(ev_impacts \o DetectImpacts(V, U, E)),
     ee |-> convert_edge_vertex_to_edge_edge_impacts(E,
                StdSort(ev_impacts \o DetectImpacts(V, U, E))),
     map |-> prune_impacts(convert_edge_vertex_to_edge_edge_impacts(E,
                 StdSort(ev_impacts \o DetectImpacts(V, U, E))), map)]

\* what detect_edge_vertex_collisions leaves: the sorted impacts, their
\* lifting, and the pruned map
DetectOutcome(V, U, E, map) ==
    [ev |-> StdSort(DetectImpacts(V, U, E)),
     ee |-> convert_edge_vertex_to_edge_edge_impacts(E,
                StdSort(DetectImpacts(V, U, E))),
     map |-> prune_impacts(convert_edge_vertex_to_edge_edge_impacts(E,
                 StdSort(DetectImpacts(V, U, E))), map)]

detect_edge_vertex_collisions ==
    /\ SceneWellFormed(vertices, edges)
    /\ \E out \in {DetectOutcome(vertices, displacements, edges, edge_impact_map)} :
        /\ ev_impacts' = out.ev
        /\ ee_impacts' = out.ee
        /\ edge_impact_map' = out.map
        /\ num_pruned_impacts' = NumPruned(out.map)
    /\ Ran("detect_edge_vertex_collisions")
    /\ UNCHANGED <<vertices, edges, displacements, opt_displacements, volumes,
                   volume_grad, volume_epsilon, num_edits>>
    /\ UNCHANGED toi_vars

compute_collision_volumes ==
    /\ SceneWellFormed(vertices, edges)
    /\ volume_grad.cols = Len(edges)
    /\ volume_grad.rows = 2 * Len(vertices)
    /\ VolumesDefined(vertices, displacements, edges, ee_impacts, edge_impact_map)
    /\ volumes' = compute_volumes_fixed_toi(vertices, displacements, edges,
                      ee_impacts, edge_impact_map, volume_epsilon)
    /\ volume_grad' = compute_volumes_gradient(vertices, displacements, edges,
                          ee_impacts, edge_impact_map, volume_epsilon)
    /\ Ran("compute_collision_volumes")
    /\ UNCHANGED <<vertices, edges, displacements, opt_displacements,
                   edge_impact_map, ev_impacts, ee_impacts, num_pruned_impacts,
                   volume_epsilon, num_edits>>
    /\ UNCHANGED toi_vars

run_full_pipeline ==
    /\ SceneWellFormed(vertices, edges)
    /\ volume_grad.cols = Len(edges)
    /\ volume_grad.rows = 2 * Len(vertices)
    /\ \E out \in {DetectOutcome(vertices, displacements, edges, edge_impact_map)} :
        /\ ev_impacts' = out.ev
        /\ ee_impacts' = out.ee
        /\ edge_impact_map' = out.map
        /\ num_pruned_impacts' = NumPruned(out.map)
        /\ VolumesDefined(vertices, displacements, edges, out.ee, out.map)
        /\ volumes' = compute_volumes_fixed_toi(vertices, displacements, edges,
                          out.ee, out.map, volume_epsilon)
        /\ volume_grad' = compute_volumes_gradient(vertices, displacements,
                              edges, out.ee, out.map, volume_epsilon)
    /\ Ran("run_full_pipeline")
    /\ UNCHANGED <<vertices, edges, displacements, opt_displacements,
                   volume_epsilon, num_edits>>
    /\ UNCHANGED toi_vars

\* State::State(): empty matrices and vectors
StateInit ==
    /\ vertices = <<>>
    /\ edges = <<>>
    /\ displacements = <<>>
    /\ opt_displacements = <<>>
    /\ volumes = <<>>
    /\ volume_grad = ZeroMatrix(0, 0)
    /\ edge_impact_map = <<>>
    /\ ev_impacts = <<>>
    /\ ee_impacts = <<>>
    /\ num_pruned_impacts = 0
    /\ volume_epsilon = 1
    /\ last_op = "State"
    /\ results_before = FALSE
    /\ sort_build \in TieBreaks
    /\ num_edits = 0

StateNext ==
    \/ load_scene
    \/ reset_scene
    \/ add_vertex
    \/ add_edges
    \/ set_vertex_position
    \/ move_vertex
    \/ move_displacement
    \/ detect_edge_vertex_collisions
    \/ compute_collision_volumes
    \/ run_full_pipeline

(***************************************************************************)
(* Interval arithmetic (boost::numeric::interval over grid numbers)        *)
(***************************************************************************)
Interval(l, u) == [lo |-> l, hi |-> u]
lower(a) == a.lo
upper(a) == a.hi
width(a) == a.hi - a.lo
zero_in(a) == a.lo <= 0 /\ 0 <= a.hi
IAdd(a, b) == Interval(a.lo + b.lo, a.hi + b.hi)
ISub(a, b) == Interval(a.lo - b.hi, a.hi - b.lo)
IMul(a, b) ==
    Interval(Min(Min(a.lo * b.lo, a.lo * b.hi), Min(a.hi * b.lo, a.hi * b.hi)),
             Max(Max(a.lo * b.lo, a.lo * b.hi), Max(a.hi * b.lo, a.hi * b.hi)))
IVSub(p, q) == <<ISub(p[1], q[1]), ISub(p[2], q[2])>>
IVDot(p, q) == IAdd(IMul(p[1], q[1]), IMul(p[2], q[2]))

\* halves of x; the midpoint is a grid number
bisect(x) ==
    LET mid == (x.lo + x.hi) \div 2
    IN <<Interval(x.lo, mid), Interval(mid, x.hi)>>

(***************************************************************************)
(* The primitives of the edge-vertex query, for bodies that translate      *)
(* (part_002:37-65).  Positions are counted ToiScale times.                *)
(***************************************************************************)
\* ToiScale times Pose::interpolate(pose_t0, pose_t1, t), position part
PoseInterpolate(pose_t0, pose_t1, t) ==
    <<IAdd(Interval(ToiScale * pose_t0[1], ToiScale * pose_t0[1]),
           IMul(Interval(pose_t1[1] - pose_t0[1], pose_t1[1] - pose_t0[1]), t)),
      IAdd(Interval(ToiScale * pose_t0[2], ToiScale * pose_t0[2]),
           IMul(Interval(pose_t1[2] - pose_t0[2], pose_t1[2] - pose_t0[2]), t))>>

\* RigidBody::world_vertex with the identity rotation
world_vertex(pose, v) ==
    <<IAdd(Interval(ToiScale * v[1], ToiScale * v[1]), pose[1]),
      IAdd(Interval(ToiScale * v[2], ToiScale * v[2]), pose[2])>>

\* part_002:37-49: <<vertex, edge_vertex0, edge_vertex1>> at time t
vertex_positions(in, t) ==
    CHOOSE w \in {<<world_vertex(poseIA, in.vertex),
                    world_vertex(poseIB, in.edge_vertex0),
                    world_vertex(poseIB, in.edge_vertex1)>> :
                      poseIA \in {PoseInterpolate(in.poseA_t0, in.poseA_t1, t)},
                      poseIB \in {PoseInterpolate(in.poseB_t0, in.poseB_t1, t)}} :
        TRUE

\* (p - e0) x (e1 - e0), each difference taken once
point_line_signed_distance(p, e0, e1) ==
    CHOOSE s \in {ISub(IMul(r[1], d[2]), IMul(r[2], d[1])) :
                      r \in {IVSub(p, e0)}, d \in {IVSub(e1, e0)}} : TRUE

\* certainly 0 <= (p - e0).(e1 - e0) <= |e1 - e0|^2; unknown counts as false
is_point_along_edge(p, e0, e1) ==
    \E r \in {IVSub(p, e0)}, d \in {IVSub(e1, e0)} :
        \E rd \in {IVDot(r, d)}, dd \in {IVDot(d, d)} :
            lower(rd) >= 0 /\ upper(rd) <= lower(dd)

\* part_002:51-57
distance(in, t) ==
    CHOOSE s \in {point_line_signed_distance(w[1], w[2], w[3]) :
                      w \in {vertex_positions(in, t)}} : TRUE

\* part_002:59-65
is_point_along_edge_at(in, t) ==
    \E w \in {vertex_positions(in, t)} :
        is_point_along_edge(w[1], w[2], w[3])

(***************************************************************************)
(* compute_edge_vertex_time_of_impact and the root finder it drives        *)
(***************************************************************************)
\* a slip: the whole step is searched (as part_001:76 does)
SearchDomain_whole(earliest_toi) == Interval(0, ToiScale)

\* part_002:69: Interval(0, earliest_toi)
SearchDomain(earliest_toi) == Interval(0, earliest_toi)

\* a slip: the tolerance does not reach the root finder
PassedTolerance_lost(toi_tolerance) == 0

\* a slip: a coarser tolerance reaches the root finder
PassedTolerance_coarse(toi_tolerance) == 2 * toi_tolerance

\* part_002:69: toi_tolerance is handed on unchanged
PassedTolerance(toi_tolerance) == toi_tolerance

\* a slip: the upper end is reported
ReportedToi_upper(x) == upper(x)

\* part_002:72: toi = toi_interval.lower()
ReportedToi(x) == lower(x)

QueryVertices == {<<1, 1>>, <<0, 1>>, <<3, 1>>, <<2, 2>>, <<3, 0>>}
QueryMotionsA == {<<0, -1>>, <<0, -2>>, <<1, -2>>, <<-2, -2>>, <<0, 1>>, <<-4, 0>>}
QueryMotionsB == {<<0, 0>>, <<0, 1>>, <<1, 0>>}
Tolerances == 1..MaxTol

\* the evaluation count saturates once it exceeds any finite search
EvalCap == 4 * ToiScale

ToiQueries ==
    [vertex : QueryVertices, poseA_t0 : {<<0, 0>>}, poseA_t1 : QueryMotionsA,
     edge_vertex0 : {<<0, 0>>}, edge_vertex1 : {<<2, 0>>},
     poseB_t0 : {<<0, 0>>}, poseB_t1 : QueryMotionsB,
     earliest_toi : 0..ToiScale, toi_tolerance : Tolerances]

\* the call: the caller passes a query and the stack holds its domain
\* (interval_root_finder's first line)
RootFinderCall ==
    /\ rf_pc = "idle"
    /\ \E q \in ToiQueries :
           /\ ccd_in' = q
           /\ xs' = <<SearchDomain(q.earliest_toi)>>
    /\ rf_pc' = "loop"
    /\ UNCHANGED <<toi_interval, is_impacting, toi, num_evals>>
    /\ UNCHANGED <<state_vars, fn_vars>>

\* one turn of the loop: pop, test, then drop, return or split
RootFinderStep ==
    /\ rf_pc = "loop"
    /\ xs # <<>>
    /\ LET x == xs[Len(xs)]
           rest == SubSeq(xs, 1, Len(xs) - 1)
           tol == PassedTolerance(ccd_in.toi_tolerance)
       IN /\ num_evals' = Min(num_evals + 1, EvalCap)
          /\ IF ~zero_in(distance(ccd_in, x))
             THEN /\ xs' = rest
                  /\ UNCHANGED <<rf_pc, toi_interval, is_impacting, toi>>
             ELSE IF width(x) <= tol
             THEN IF is_point_along_edge_at(ccd_in, x)
                  THEN /\ toi_interval' = x
                       /\ is_impacting' = TRUE
                       /\ toi' = ReportedToi(x)
                       /\ rf_pc' = "done"
                       /\ xs' = rest
                  ELSE /\ xs' = rest
                       /\ UNCHANGED <<rf_pc, toi_interval, is_impacting, toi>>
             ELSE /\ xs' = rest \o <<bisect(x)[2], bisect(x)[1]>>
                  /\ UNCHANGED <<rf_pc, toi_interval, is_impacting, toi>>
    /\ UNCHANGED ccd_in
    /\ UNCHANGED <<state_vars, fn_vars>>

\* the stack is empty: no enclosure, the query answers false
RootFinderExhausted ==
    /\ rf_pc = "loop"
    /\ xs = <<>>
    /\ is_impacting' = FALSE
    /\ toi' = ReportedToi(toi_interval)
    /\ rf_pc' = "done"
    /\ UNCHANGED <<ccd_in, xs, toi_interval, num_evals>>
    /\ UNCHANGED <<state_vars, fn_vars>>

\* no query is in progress
ToiIdle ==
    /\ ccd_in = [vertex |-> <<1, 1>>, poseA_t0 |-> <<0, 0>>, poseA_t1 |-> <<0, 0>>,
                 edge_vertex0 |-> <<0, 0>>, edge_vertex1 |-> <<2, 0>>,
                 poseB_t0 |-> <<0, 0>>, poseB_t1 |-> <<0, 0>>,
                 earliest_toi |-> 0, toi_tolerance |-> 1]
    /\ rf_pc = "idle"
    /\ xs = <<>>
    /\ toi_interval = Interval(0, 0)
    /\ is_impacting = FALSE
    /\ toi = 0
    /\ num_evals = 0

ToiNext ==
    \/ RootFinderCall
    \/ RootFinderStep
    \/ RootFinderExhausted

(***************************************************************************)
(* Specifications                                                          *)
(***************************************************************************)
\* the scene container driven by its callers
\* no kernel has been called
FnIdle ==
    /\ fn_op = "none"
    /\ fn_in = <<>>
    /\ fn_out = <<>>

Init == StateInit /\ ToiIdle /\ FnIdle
Next == StateNext
Spec == Init /\ [][Next]_vars

\* one narrow-phase query, run to completion
SpecToi == Init /\ [][ToiNext]_vars
FairSpecToi == SpecToi /\ WF_vars(ToiNext)

(***************************************************************************)
(* Properties of the narrow-phase query                                    *)
(***************************************************************************)
QueryDone == rf_pc = "done"
QueryHit == rf_pc = "done" /\ is_impacting

\* C1: whenever the query returns hit = true, the reported toi lies in [0, 1],
\* and more narrowly in [0, earliest_toi] for the earliest_toi the caller passed
C1_ToiWithinSearchDomain ==
    QueryHit => /\ 0 <= toi /\ toi <= ToiScale
                /\ toi <= ccd_in.earliest_toi

\* a hit strictly inside a search domain that is shorter than the step
C1_Witness ==
    QueryHit /\ toi > 0 /\ ccd_in.earliest_toi < ToiScale /\ num_evals > 1

\* the distance is zero and the vertex is on the segment at the instant t
TrueCollisionAt(in, t) ==
    /\ zero_in(distance(in, Interval(t, t)))
    /\ is_point_along_edge_at(in, Interval(t, t))

\* C2: if at some time t* of the search domain the distance is zero and the
\* vertex truly is along the edge, the query returns hit = true with toi <= t*
C2_NeverMissesNorLate ==
    QueryDone =>
        \A t \in 0..ccd_in.earliest_toi :
            TrueCollisionAt(ccd_in, t) => is_impacting /\ toi <= t

PassesBothTests(in, x) ==
    zero_in(distance(in, x)) /\ is_point_along_edge_at(in, x)

\* C3 as stated: the returned interval has width <= tol, passes both tests,
\* and no interval of width <= tol lying entirely before it passes both tests
C3_NoEarlierIntervalPasses ==
    QueryHit =>
        /\ width(toi_interval) <= ccd_in.toi_tolerance
        /\ PassesBothTests(ccd_in, toi_interval)
        /\ \A a \in 0..ccd_in.earliest_toi : \A b \in a..ccd_in.earliest_toi :
               (b - a <= ccd_in.toi_tolerance /\ b < lower(toi_interval))
                   => ~PassesBothTests(ccd_in, Interval(a, b))

\* the leaves of the bisection of x: the first intervals of width <= tol
RECURSIVE BisectionLeaves(_, _)
BisectionLeaves(x, tol) ==
    IF width(x) <= tol THEN {x}
    ELSE BisectionLeaves(bisect(x)[1], tol) \cup BisectionLeaves(bisect(x)[2], tol)

\* C3 amended: the returned interval is a leaf of the bisection, has width
\* <= tol, passes both tests, and no leaf of the bisection before it does
C3_LeftmostAcceptedLeaf ==
    QueryHit =>
        LET leaves == BisectionLeaves(Interval(0, ccd_in.earliest_toi),
                                      ccd_in.toi_tolerance)
        IN /\ toi_interval \in leaves
           /\ width(toi_interval) <= ccd_in.toi_tolerance
           /\ PassesBothTests(ccd_in, toi_interval)
           /\ \A y \in leaves :
                  upper(y) <= lower(toi_interval) => ~PassesBothTests(ccd_in, y)

\* a hit on a leaf that is not the first leaf, after an earlier leaf with a
\* root enclosure was turned down by the inside test
C3_Witness ==
    /\ QueryHit
    /\ lower(toi_interval) > 0
    /\ \E y \in BisectionLeaves(Interval(0, ccd_in.earliest_toi),
                                ccd_in.toi_tolerance) :
           /\ upper(y) <= lower(toi_interval)
           /\ zero_in(distance(ccd_in, y))

\* C2 amended: if at some time t* of the search domain the distance is zero
\* and the inside predicate holds on a leaf of the bisection that contains t*,
\* the query returns hit = true with toi <= t*
C2_NeverMissesCertified ==
    QueryDone =>
        \A t \in 0..ccd_in.earliest_toi :
            \A y \in BisectionLeaves(Interval(0, ccd_in.earliest_toi),
                                     ccd_in.toi_tolerance) :
                (/\ lower(y) <= t /\ t <= upper(y)
                 /\ zero_in(distance(ccd_in, Interval(t, t)))
                 /\ is_point_along_edge_at(ccd_in, y))
                    => is_impacting /\ toi <= t

\* a hit whose leaf holds a true collision strictly after its lower end, found
\* after the finder split the domain and dropped an earlier interval
C2_Witness ==
    /\ QueryHit
    /\ num_evals > 3
    /\ lower(toi_interval) > 0
    /\ \E t \in (lower(toi_interval) + 1)..upper(toi_interval) :
           TrueCollisionAt(ccd_in, t)
    /\ ~TrueCollisionAt(ccd_in, lower(toi_interval))

\* C4: for every tol > 0 and bounded domain the root finder terminates, and a
\* query that ends without an enclosure has emptied its stack and answers
\* hit = false as an ordinary result
C4_RootFinderTerminates ==
    /\ (rf_pc = "loop") ~> QueryDone
    /\ [](QueryDone => (is_impacting \in BOOLEAN
                        /\ (~is_impacting => xs = <<>>)))

\* a query answered false after the domain was split and every part dropped
C4_Witness ==
    QueryDone /\ ~is_impacting /\ xs = <<>> /\ num_evals >= 7


(***************************************************************************)
(* Properties of the scene container                                       *)
(***************************************************************************)
AfterDetect == last_op \in {"detect_edge_vertex_collisions", "run_full_pipeline"}

SceneEdits ==
    {"load_scene", "reset_scene", "add_vertex", "add_edges",
     "set_vertex_position", "move_vertex", "move_displacement"}

\* C5: after detect_edge_vertex_collisions ev_impacts is ordered by
\* non-decreasing time: for all i < j, ev_impacts[i].time <= ev_impacts[j].time
C5_EvImpactsSortedByTime ==
    AfterDetect =>
        \A i \in 1..Len(ev_impacts) : \A j \in 1..Len(ev_impacts) :
            i < j => ev_impacts[i].time <= ev_impacts[j].time

\* a detection whose sort moved impacts of different times
C5_Witness ==
    /\ last_op = "detect_edge_vertex_collisions"
    /\ Len(ev_impacts) >= 2
    /\ ev_impacts[1].time < ev_impacts[Len(ev_impacts)].time
    /\ ev_impacts # DetectImpacts(vertices, displacements, edges)

\* the edge-edge records that name edge e
RecordsOf(e) == {i \in 1..Len(ee_impacts) : NamesEdge(ee_impacts[i], e)}

\* C6: after detect_edge_vertex_collisions, for every edge e,
\* edge_impact_map[e] = -1 if and only if e is neither edge_a nor edge_b of any
\* record of ee_impacts
C6_UnmappedIffInNoImpact ==
    AfterDetect =>
        /\ Len(edge_impact_map) = Len(edges)
        /\ \A e \in 0..(Len(edges) - 1) :
               At(edge_impact_map, e) = -1 <=> RecordsOf(e) = {}

\* a detection that left one edge mapped and another edge without an impact
C6_Witness ==
    /\ last_op = "detect_edge_vertex_collisions"
    /\ \E e \in 0..(Len(edges) - 1) :
           At(edge_impact_map, e) >= 0 /\ RecordsOf(e) # {}
    /\ \E e \in 0..(Len(edges) - 1) :
           At(edge_impact_map, e) = -1 /\ RecordsOf(e) = {}

\* C7: in every reachable state each edge e with edge_impact_map[e] >= 0 has
\* edge_impact_map[e] < |ee_impacts| and the referenced record names e as
\* edge_a or edge_b
C7_MappedRecordNamesEdge ==
    \A e \in 0..(Len(edge_impact_map) - 1) :
        At(edge_impact_map, e) >= 0 =>
            /\ At(edge_impact_map, e) < Len(ee_impacts)
            /\ NamesEdge(At(ee_impacts, At(edge_impact_map, e)), e)

\* a scene that was edited after a detection, detected again and had its
\* volumes computed, and holds a mapped edge
C7_Witness ==
    /\ last_op = "compute_collision_volumes"
    /\ num_edits >= 2
    /\ \E e \in 0..(Len(edge_impact_map) - 1) : At(edge_impact_map, e) > 0

\* C8: after pruning, for every edge e with edge_impact_map[e] >= 0 no record
\* of ee_impacts that names e has a strictly smaller time than the record the
\* map refers to
C8_MappedImpactIsEarliest ==
    AfterDetect =>
        \A e \in 0..(Len(edge_impact_map) - 1) :
            At(edge_impact_map, e) >= 0 =>
                \A i \in RecordsOf(e) :
                    ee_impacts[i].time
                        >= At(ee_impacts, At(edge_impact_map, e)).time

\* an edge named by records of different times, mapped to one of them
C8_Witness ==
    /\ AfterDetect
    /\ \E e \in 0..(Len(edge_impact_map) - 1) :
           /\ At(edge_impact_map, e) >= 0
           /\ \E i \in RecordsOf(e) :
                  ee_impacts[i].time
                      > At(ee_impacts, At(edge_impact_map, e)).time

\* C9: in the sorted ev_impacts, impacts of equal time are ordered by
\* (edge_index, vertex_index) lexicographically
C9_TiesOrderedLexicographically ==
    AfterDetect =>
        \A i \in 1..Len(ev_impacts) : \A j \in 1..Len(ev_impacts) :
            (i < j /\ ev_impacts[i].time = ev_impacts[j].time) =>
                \/ ev_impacts[i].edge_index < ev_impacts[j].edge_index
                \/ /\ ev_impacts[i].edge_index = ev_impacts[j].edge_index
                   /\ ev_impacts[i].vertex_index <= ev_impacts[j].vertex_index

\* C10: immediately after load_scene, reset_scene, add_vertex, add_edges,
\* set_vertex_position, move_vertex or move_displacement, ev_impacts and
\* ee_impacts are empty, every entry of edge_impact_map is -1 and every entry
\* of volumes and volume_grad is zero
C10_EditsClearResults ==
    last_op \in SceneEdits =>
        /\ ev_impacts = <<>>
        /\ ee_impacts = <<>>
        /\ \A n \in 1..Len(edge_impact_map) : edge_impact_map[n] = -1
        /\ \A n \in 1..Len(volumes) : volumes[n] = 0
        /\ \A p \in DOMAIN volume_grad.val : volume_grad.val[p] = 0

\* a vertex moved in a scene that held impacts, a map and volumes
C10_Witness ==
    /\ last_op = "move_vertex"
    /\ results_before
    /\ Len(volumes) >= 2
    /\ Len(edge_impact_map) >= 2


(***************************************************************************)
(* Properties of the collision volumes                                     *)
(***************************************************************************)
AfterVolumes == last_op \in {"compute_collision_volumes", "run_full_pipeline"}

\* column e of volume_grad is all zero
ZeroColumn(e) ==
    \A r \in 1..volume_grad.rows : volume_grad.val[<<r, e + 1>>] = 0

VolumePositions == {<<4, 0>>, <<2, 1>>, <<0, -3>>}
VolumeDisplacements == {<<0, 0>>, <<0, -2>>, <<1, 1>>, <<-4, 0>>}
VolumeEpsilons == {0, 1, 2}

\* arguments: Vi at the origin, toi and alpha over the whole grid of [0, 1]
VolumeQueries ==
    [Vi : {<<0, 0>>}, Vj : VolumePositions, Ui : VolumeDisplacements,
     Uj : VolumeDisplacements, toi : 0..TimeScale, alpha : 0..TimeScale,
     epsilon : VolumeEpsilons]

\* what a call gives back: the volume, or the degenerate-edge error
VolumeResult(q) ==
    IF degenerate_edge(q.Vi, q.Vj, q.Ui, q.Uj, q.toi)
    THEN [error |-> "DegenerateEdge", value |-> 0]
    ELSE [error |-> "none",
          value |-> space_time_collision_volume(q.Vi, q.Vj, q.Ui, q.Uj, q.toi,
                                                q.alpha, q.epsilon)]

call_space_time_collision_volume ==
    /\ fn_op = "none"
    /\ \E q \in VolumeQueries :
           /\ fn_in' = q
           /\ fn_out' = VolumeResult(q)
    /\ fn_op' = "space_time_collision_volume"
    /\ UNCHANGED <<state_vars, toi_vars>>

VolumeNext == call_space_time_collision_volume

SpecVolume == Init /\ [][VolumeNext]_vars

VolumeCalled == fn_op = "space_time_collision_volume"

RECURSIVE GCD(_, _)
GCD(a, b) == IF b = 0 THEN a ELSE GCD(b, a % b)

\* the time n/d in lowest terms with a positive denominator
Frac(n, d) ==
    LET g == GCD(IF n < 0 THEN -n ELSE n, IF d < 0 THEN -d ELSE d)
    IN IF d < 0 THEN [num |-> (-n) \div g, den |-> (-d) \div g]
                ELSE [num |-> n \div g, den |-> d \div g]

FracLess(x, y) == x.num * y.den < y.num * x.den

\* where along the edge the vertex is at time t, as rd/dd (positions are
\* scaled by t.den); a collapsed edge is a point
SpatialAt(q, t) ==
    LET vi == <<t.den * q.Vi[1] + t.num * q.Ui[1], t.den * q.Vi[2] + t.num * q.Ui[2]>>
        vj == <<t.den * q.Vj[1] + t.num * q.Uj[1], t.den * q.Vj[2] + t.num * q.Uj[2]>>
        vk == <<t.den * q.Vk[1] + t.num * q.Uk[1], t.den * q.Vk[2] + t.num * q.Uk[2]>>
    IN [r |-> Sub(vk, vi), d |-> Sub(vj, vi)]

\* a slip: the far endpoint is left out of the edge
on_edge_half_open(q, t) ==
    LET s == SpatialAt(q, t)
    IN IF s.d = Zero2 THEN s.r = Zero2
       ELSE /\ Cross(s.d, s.r) = 0
            /\ 0 <= Dot(s.r, s.d)
            /\ Dot(s.r, s.d) < Dot(s.d, s.d)

\* the vertex is on the segment at time t: collinear and alpha in [0, 1]
on_edge(q, t) ==
    LET s == SpatialAt(q, t)
    IN IF s.d = Zero2 THEN s.r = Zero2
       ELSE /\ Cross(s.d, s.r) = 0
            /\ 0 <= Dot(s.r, s.d)
            /\ Dot(s.r, s.d) <= Dot(s.d, s.d)

\* the times at which a t^2 + b t + c vanishes; when it vanishes everywhere
\* (the vertex slides along the line of the edge) the step's start and the
\* times at which the vertex meets an endpoint
toi_candidates(a, b, c, q) ==
    IF a # 0
    THEN IF b * b - 4 * a * c < 0 THEN {}
         ELSE {Frac(-b - Isqrt(b * b - 4 * a * c), 2 * a),
               Frac(-b + Isqrt(b * b - 4 * a * c), 2 * a)}
    ELSE IF b # 0 THEN {Frac(-c, b)}
    ELSE IF c # 0 THEN {}
    ELSE {Frac(0, 1)}
         \cup {Frac(q.Vi[n] - q.Vk[n], q.Uk[n] - q.Ui[n]) :
                   n \in {m \in {1, 2} : q.Uk[m] # q.Ui[m]}}
         \cup {Frac(q.Vj[n] - q.Vk[n], q.Uk[n] - q.Uj[n]) :
                   n \in {m \in {1, 2} : q.Uk[m] # q.Uj[m]}}

\* the outcome of a kernel: the earliest candidate in [0, 1] at which the
\* vertex is on the edge
NoImpact == [hit |-> FALSE, toi |-> Frac(-1, 1)]

earliest_impact(q, candidates) ==
    LET valid == {t \in candidates : 0 <= t.num /\ t.num <= t.den /\ on_edge(q, t)}
    IN IF valid = {} THEN NoImpact
       ELSE [hit |-> TRUE,
             toi |-> CHOOSE t \in valid : \A u \in valid : ~FracLess(u, t)]

\* a slip: the displacement of the edge is left out of the linear term
compute_edge_vertex_time_of_impact_absolute(Vk, Uk, Vi, Ui, Vj, Uj) ==
    LET q == [Vi |-> Vi, Vj |-> Vj, Vk |-> Vk, Ui |-> Ui, Uj |-> Uj, Uk |-> Uk]
    IN earliest_impact(q,
           toi_candidates(Cross(Sub(Uj, Ui), Sub(Uk, Ui)),
                          Cross(Sub(Vj, Vi), Uk) + Cross(Sub(Uj, Ui), Sub(Vk, Vi)),
                          Cross(Sub(Vj, Vi), Sub(Vk, Vi)), q))

\* ccd::compute_edge_vertex_time_of_impact(Vk, Uk, Vi, Ui, Vj, Uj, toi, alpha):
\* the coefficients of (e_j(t) - e_i(t)) x (v_k(t) - e_i(t))
compute_edge_vertex_time_of_impact(Vk, Uk, Vi, Ui, Vj, Uj) ==
    LET q == [Vi |-> Vi, Vj |-> Vj, Vk |-> Vk, Ui |-> Ui, Uj |-> Uj, Uk |-> Uk]
    IN earliest_impact(q,
           toi_candidates(Cross(Sub(Uj, Ui), Sub(Uk, Ui)),
                          Cross(Sub(Vj, Vi), Sub(Uk, Ui)) + Cross(Sub(Uj, Ui), Sub(Vk, Vi)),
                          Cross(Sub(Vj, Vi), Sub(Vk, Vi)), q))

\* a slip: the later of two impacts is reported
autogen_compute_edge_vertex_time_of_impact_latest(Vi, Vj, Vk, Ui, Uj, Uk) ==
    LET q == [Vi |-> Vi, Vj |-> Vj, Vk |-> Vk, Ui |-> Ui, Uj |-> Uj, Uk |-> Uk]
        F(X, Y) == X[1][1] * (Y[2][2] - Y[3][2]) + X[2][1] * (Y[3][2] - Y[1][2])
                   + X[3][1] * (Y[1][2] - Y[2][2])
        V == <<Vi, Vj, Vk>>
        U == <<Ui, Uj, Uk>>
        valid == {t \in toi_candidates(F(U, U), F(V, U) + F(U, V), F(V, V), q) :
                      0 <= t.num /\ t.num <= t.den /\ on_edge(q, t)}
    IN IF valid = {} THEN NoImpact
       ELSE [hit |-> TRUE, toi |-> CHOOSE t \in valid : \A u \in valid : ~FracLess(t, u)]

\* ccd::autogen::compute_edge_vertex_time_of_impact(Vi, Vj, Vk, Ui, Uj, Uk, toi):
\* the same quadratic with its coefficients written out term by term
autogen_compute_edge_vertex_time_of_impact(Vi, Vj, Vk, Ui, Uj, Uk) ==
    LET q == [Vi |-> Vi, Vj |-> Vj, Vk |-> Vk, Ui |-> Ui, Uj |-> Uj, Uk |-> Uk]
        F(X, Y) == X[1][1] * (Y[2][2] - Y[3][2]) + X[2][1] * (Y[3][2] - Y[1][2])
                   + X[3][1] * (Y[1][2] - Y[2][2])
        V == <<Vi, Vj, Vk>>
        U == <<Ui, Uj, Uk>>
    IN earliest_impact(q, toi_candidates(F(U, U), F(V, U) + F(U, V), F(V, V), q))

\* dvector(index, v): the components of v as autodiff variables
dvector(index, v) ==
    <<[value |-> v[1], variable |-> index], [value |-> v[2], variable |-> index + 1]>>

\* the autogen kernel on autodiff scalars: the value part of every scalar
\* goes through the same arithmetic, and toi comes back as a scalar
autodiff_compute_edge_vertex_time_of_impact(Vi, Vj, Vk, DUi, DUj, DUk) ==
    LET out == autogen_compute_edge_vertex_time_of_impact(Vi, Vj, Vk,
                   <<DUi[1].value, DUi[2].value>>, <<DUj[1].value, DUj[2].value>>,
                   <<DUk[1].value, DUk[2].value>>)
    IN [hit |-> out.hit, toi |-> [value |-> out.toi]]

\* the ways the tests split one closing displacement between vertex and edge
MaxSplit == 4

\* closing displacements (vel[]; the slowest does not arrive within the step)
\* and what is added to the endpoints' displacements (dx[]), in tenths
ClosingDisplacements == {6, 10, 20, 40}
EdgeStretches == {5, 0, -5}

\* part_000:61-102 (vertex above the edge, over its middle or off it) and
\* part_000:103-142 (vertex on the line of the edge), each also with the
\* edge's endpoints exchanged
CheckToiQueries ==
    LET perpendicular ==
            {[Vi |-> <<-10, 0>>, Vj |-> <<10, 0>>, Vk |-> Vk,
              Uk |-> <<0, -(3 - j) * (vel \div 2)>>,
              Ui |-> <<-dx, (j - 1) * (vel \div 2)>>,
              Uj |-> <<dx, (j - 1) * (vel \div 2)>>] :
                 Vk \in {<<0, 10>>, <<8, 10>>}, vel \in ClosingDisplacements,
                 j \in 0..MaxSplit, dx \in EdgeStretches}
        tangent ==
            {[Vi |-> <<-5, 0>>, Vj |-> <<-15, 0>>, Vk |-> <<5, 0>>,
              Uk |-> <<-(3 - j) * (vel \div 2), 0>>,
              Ui |-> <<(j - 1) * (vel \div 2), 0>>,
              Uj |-> <<(j - 1) * (vel \div 2), dx>>] :
                 vel \in ClosingDisplacements, j \in 0..MaxSplit, dx \in EdgeStretches}
    IN perpendicular \cup tangent
       \cup {[q EXCEPT !.Vi = q.Vj, !.Vj = q.Vi, !.Ui = q.Uj, !.Uj = q.Ui] :
                 q \in perpendicular \cup tangent}

\* part_000:13-46 without its REQUIREs: the three kernels on one query
check_toi ==
    /\ fn_op = "none"
    /\ \E q \in CheckToiQueries :
           /\ fn_in' = q
           /\ fn_out' =
                  [direct |-> compute_edge_vertex_time_of_impact(
                                  q.Vk, q.Uk, q.Vi, q.Ui, q.Vj, q.Uj),
                   autogen |-> autogen_compute_edge_vertex_time_of_impact(
                                  q.Vi, q.Vj, q.Vk, q.Ui, q.Uj, q.Uk),
                   autodiff |-> autodiff_compute_edge_vertex_time_of_impact(
                                  q.Vi, q.Vj, q.Vk, dvector(0, q.Ui),
                                  dvector(2, q.Uj), dvector(4, q.Uk))]
    /\ fn_op' = "check_toi"
    /\ UNCHANGED <<state_vars, toi_vars>>

SpecCheckToi == Init /\ [][check_toi]_vars

CheckToiDone == fn_op = "check_toi"

SameImpact(x, y) == x.hit = y.hit /\ (x.hit => x.toi = y.toi)

\* C13: exchanging (Vi, Ui) with (Vj, Uj) while keeping the vertex gives the
\* same hit flag and the same toi
C13_EdgeSymmetry ==
    CheckToiDone =>
        /\ SameImpact(fn_out.direct,
               compute_edge_vertex_time_of_impact(
                   fn_in.Vk, fn_in.Uk, fn_in.Vj, fn_in.Uj, fn_in.Vi, fn_in.Ui))
        /\ SameImpact(fn_out.autogen,
               autogen_compute_edge_vertex_time_of_impact(
                   fn_in.Vj, fn_in.Vi, fn_in.Vk, fn_in.Uj, fn_in.Ui, fn_in.Uk))

\* an impact at the endpoint Vi of an edge whose endpoints move differently
C13_Witness ==
    /\ CheckToiDone
    /\ fn_out.direct.hit
    /\ fn_in.Ui # fn_in.Uj
    /\ SpatialAt(fn_in, fn_out.direct.toi).r = Zero2
    /\ SpatialAt(fn_in, fn_out.direct.toi).d # Zero2


CommonDisplacements == {<<3, 0>>, <<0, -7>>, <<-2, 5>>}

Direct(q) == compute_edge_vertex_time_of_impact(q.Vk, q.Uk, q.Vi, q.Ui, q.Vj, q.Uj)

Shifted(q, w) ==
    [q EXCEPT !.Ui = Add(q.Ui, w), !.Uj = Add(q.Uj, w), !.Uk = Add(q.Uk, w)]

\* the endpoints pushed apart (s > 0) or together (s < 0) along the edge,
\* which lies along the x axis at the start of the step
Stretched(q, s) ==
    [q EXCEPT !.Ui = <<q.Ui[1] - s * Sign(q.Vj[1] - q.Vi[1]), q.Ui[2]>>,
              !.Uj = <<q.Uj[1] + s * Sign(q.Vj[1] - q.Vi[1]), q.Uj[2]>>]

\* the vertex starts off the line of the edge
OffLine(q) == q.Vk[2] # q.Vi[2]

\* the initial gap, and the displacement that closes it: across the gap to
\* the line of the edge, or along the line to the nearer endpoint
Gap(q) ==
    IF OffLine(q) THEN q.Vk[2] - q.Vi[2]
    ELSE Min((q.Vk[1] - q.Vi[1]) * Sign(q.Vk[1] - q.Vi[1]),
             (q.Vk[1] - q.Vj[1]) * Sign(q.Vk[1] - q.Vj[1]))

ClosingDisplacement(q) ==
    IF OffLine(q) THEN q.Ui[2] - q.Uk[2]
    ELSE IF (q.Vk[1] - q.Vi[1]) * Sign(q.Vk[1] - q.Vi[1])
              <= (q.Vk[1] - q.Vj[1]) * Sign(q.Vk[1] - q.Vj[1])
         THEN (q.Ui[1] - q.Uk[1]) * Sign(q.Vk[1] - q.Vi[1])
         ELSE (q.Uj[1] - q.Uk[1]) * Sign(q.Vk[1] - q.Vj[1])

\* C15: for a vertex closing on an edge, splitting the closing displacement
\* between vertex and edge, or stretching or compressing the edge along its
\* own direction, leaves hit and toi unchanged, and toi equals the initial
\* gap divided by the closing displacement
C15_RelativeDisplacementOnly ==
    (CheckToiDone /\ fn_out.direct.hit) =>
        /\ \A w \in CommonDisplacements :
               SameImpact(Direct(Shifted(fn_in, w)), fn_out.direct)
        /\ \A s \in EdgeStretches :
               SameImpact(Direct(Stretched(fn_in, s)), fn_out.direct)
        /\ fn_out.direct.toi = Frac(Gap(fn_in), ClosingDisplacement(fn_in))

\* C15 amended: a displacement common to vertex and edge leaves hit and toi
\* unchanged, and toi is the gap over the closing displacement; a stretch
\* of the edge along its own direction leaves them unchanged when the vertex
\* starts off the line of the edge and is still on the stretched edge at
\* that time
C15_StretchKeepingContact ==
    (CheckToiDone /\ fn_out.direct.hit) =>
        /\ \A w \in CommonDisplacements :
               SameImpact(Direct(Shifted(fn_in, w)), fn_out.direct)
        /\ \A s \in EdgeStretches :
               (OffLine(fn_in) /\ on_edge(Stretched(fn_in, s), fn_out.direct.toi))
                   => SameImpact(Direct(Stretched(fn_in, s)), fn_out.direct)
        /\ fn_out.direct.toi = Frac(Gap(fn_in), ClosingDisplacement(fn_in))

\* an impact in mid-step where vertex and edge both move, the edge deforms,
\* and a further compression still leaves the vertex on the edge
C15_Witness ==
    /\ CheckToiDone
    /\ fn_out.direct = [hit |-> TRUE, toi |-> Frac(1, 2)]
    /\ fn_in.Uk # Zero2 /\ fn_in.Ui[2] # 0
    /\ fn_in.Ui # fn_in.Uj
    /\ OffLine(fn_in)
    /\ on_edge(Stretched(fn_in, -5), fn_out.direct.toi)
    /\ on_edge(Stretched(fn_in, 5), fn_out.direct.toi)


(***************************************************************************)
(* compute_edge_edge_time_of_impact (part_001:84-177): two 3D edges of     *)
(* translating bodies through the root finder                              *)
(***************************************************************************)
\* part_001:107-128: <<edgeA_vertex0, edgeA_vertex1, edgeB_vertex0,
\* edgeB_vertex1>> at time t, pose + displacement * t with no rotation
ee_vertex_positions(in, t) ==
    LET at(v, pose, disp) ==
            [k \in 1..3 |-> IAdd(Interval(ToiScale * (v[k] + pose[k]),
                                          ToiScale * (v[k] + pose[k])),
                                 IMul(Interval(disp[k], disp[k]), t))]
    IN <<at(in.edgeA_vertex0, in.poseA, in.displacementA),
         at(in.edgeA_vertex1, in.poseA, in.displacementA),
         at(in.edgeB_vertex0, in.poseB, in.displacementB),
         at(in.edgeB_vertex1, in.poseB, in.displacementB)>>

\* r x s for r = a1 - a0 and s = b1 - b0, in interval arithmetic
edge_cross(w) ==
    LET r == [k \in 1..3 |-> ISub(w[2][k], w[1][k])]
        s == [k \in 1..3 |-> ISub(w[4][k], w[3][k])]
    IN <<ISub(IMul(r[2], s[3]), IMul(r[3], s[2])),
         ISub(IMul(r[3], s[1]), IMul(r[1], s[3])),
         ISub(IMul(r[1], s[2]), IMul(r[2], s[1]))>>

\* part_001:130-139: geometry::line_line_signed_distance, (r x s) . (b0 - a0)
line_line_signed_distance(in, t) ==
    LET w == ee_vertex_positions(in, t)
        n == edge_cross(w)
    IN IAdd(IAdd(IMul(n[1], ISub(w[3][1], w[1][1])),
                 IMul(n[2], ISub(w[3][2], w[1][2]))),
            IMul(n[3], ISub(w[3][3], w[1][3])))

\* part_001:141-168: false when r x s may vanish, otherwise the test is
\* not implemented and throws
is_intersection_inside_edges(in, t) ==
    LET rxs == edge_cross(ee_vertex_positions(in, t))
    IN IF zero_in(IAdd(IAdd(IMul(rxs[1], rxs[1]), IMul(rxs[2], rxs[2])),
                       IMul(rxs[3], rxs[3])))
       THEN "false"
       ELSE "NotImplementedError"

EdgeEdgeQueries ==
    {[edgeA_vertex0 |-> <<0, 0, 0>>, edgeA_vertex1 |-> <<2, 0, 0>>,
      poseA |-> <<0, 0, 0>>, displacementA |-> dA,
      edgeB_vertex0 |-> b[1], edgeB_vertex1 |-> b[2],
      poseB |-> <<0, 0, 0>>, displacementB |-> dB, tol |-> tol] :
         dA \in {<<0, 0, 0>>, <<0, 0, 1>>},
         b \in {<<<<1, -1, 1>>, <<1, 1, 1>>>>, <<<<3, -1, 1>>, <<3, 1, 1>>>>,
                <<<<0, 0, 1>>, <<2, 0, 1>>>>, <<<<1, 1, 1>>, <<1, 3, 1>>>>},
         dB \in {<<0, 0, -2>>, <<0, 0, -1>>, <<0, 0, 0>>, <<0, 0, -4>>},
         tol \in Tolerances}

\* part_001:170-173: the call, over Interval(0, 1) with the finder's own
\* tolerance
EdgeEdgeCall ==
    /\ rf_pc = "idle"
    /\ \E q \in EdgeEdgeQueries :
           /\ ccd_in' = q
           /\ xs' = <<Interval(0, ToiScale)>>
    /\ rf_pc' = "loop"
    /\ UNCHANGED <<toi_interval, is_impacting, toi, num_evals>>
    /\ UNCHANGED <<state_vars, fn_vars>>

\* one turn of the finder's loop; an exception of the inside test leaves
\* the finder and the call, and toi is never assigned
EdgeEdgeStep ==
    /\ rf_pc = "loop"
    /\ xs # <<>>
    /\ LET x == xs[Len(xs)]
           rest == SubSeq(xs, 1, Len(xs) - 1)
       IN /\ num_evals' = Min(num_evals + 1, EvalCap)
          /\ IF ~zero_in(line_line_signed_distance(ccd_in, x))
             THEN /\ xs' = rest
                  /\ UNCHANGED <<rf_pc, toi_interval, is_impacting, toi>>
             ELSE IF width(x) <= ccd_in.tol
             THEN IF is_intersection_inside_edges(ccd_in, x) = "NotImplementedError"
                  THEN /\ rf_pc' = "raised"
                       /\ xs' = rest
                       /\ UNCHANGED <<toi_interval, is_impacting, toi>>
                  ELSE /\ xs' = rest
                       /\ UNCHANGED <<rf_pc, toi_interval, is_impacting, toi>>
             ELSE /\ xs' = rest \o <<bisect(x)[2], bisect(x)[1]>>
                  /\ UNCHANGED <<rf_pc, toi_interval, is_impacting, toi>>
    /\ UNCHANGED ccd_in
    /\ UNCHANGED <<state_vars, fn_vars>>

\* part_001:175-176: nothing left to search, toi = toi_interval.lower()
EdgeEdgeExhausted ==
    /\ rf_pc = "loop"
    /\ xs = <<>>
    /\ is_impacting' = FALSE
    /\ toi' = lower(toi_interval)
    /\ rf_pc' = "done"
    /\ UNCHANGED <<ccd_in, xs, toi_interval, num_evals>>
    /\ UNCHANGED <<state_vars, fn_vars>>

EdgeEdgeNext ==
    \/ EdgeEdgeCall
    \/ EdgeEdgeStep
    \/ EdgeEdgeExhausted

SpecEdgeEdge == Init /\ [][EdgeEdgeNext]_vars

\* the call has returned or thrown
EdgeEdgeOver == rf_pc \in {"done", "raised"}

\* exact geometry at the grid time t: n = r x s, the lines meet when
\* n . w = 0 for w = b0 - a0, at alpha = (w x s).n / n.n along A and
\* beta = (w x r).n / n.n along B
EdgeEdgeAt(q, t) ==
    LET p(v, pose, disp) == [k \in 1..3 |-> ToiScale * (v[k] + pose[k]) + disp[k] * t]
        cross(a, b) == <<a[2] * b[3] - a[3] * b[2], a[3] * b[1] - a[1] * b[3],
                         a[1] * b[2] - a[2] * b[1]>>
        dot(a, b) == a[1] * b[1] + a[2] * b[2] + a[3] * b[3]
        a0 == p(q.edgeA_vertex0, q.poseA, q.displacementA)
        a1 == p(q.edgeA_vertex1, q.poseA, q.displacementA)
        b0 == p(q.edgeB_vertex0, q.poseB, q.displacementB)
        b1 == p(q.edgeB_vertex1, q.poseB, q.displacementB)
        r == [k \in 1..3 |-> a1[k] - a0[k]]
        s == [k \in 1..3 |-> b1[k] - b0[k]]
        w == [k \in 1..3 |-> b0[k] - a0[k]]
        n == cross(r, s)
    IN [meet |-> dot(n, n) # 0 /\ dot(n, w) = 0,
        inside |-> /\ 0 <= dot(cross(w, s), n) /\ dot(cross(w, s), n) <= dot(n, n)
                   /\ 0 <= dot(cross(w, r), n) /\ dot(cross(w, r), n) <= dot(n, n)]

MeetInsideTimes(q) ==
    {t \in 0..ToiScale : EdgeEdgeAt(q, t).meet /\ EdgeEdgeAt(q, t).inside}

MeetOutsideTimes(q) ==
    {t \in 0..ToiScale : EdgeEdgeAt(q, t).meet /\ ~EdgeEdgeAt(q, t).inside}

\* C16: when the non-parallel lines of two 3D edges meet inside both
\* segments at a time t in [0, 1], compute_edge_edge_time_of_impact returns
\* hit = true with toi <= t and raises no error; it returns hit = false when
\* the lines meet only outside one of the segments
C16_EdgeEdgeImpactFound ==
    EdgeEdgeOver =>
        /\ MeetInsideTimes(ccd_in) # {} =>
               /\ rf_pc = "done"
               /\ is_impacting
               /\ \A t \in MeetInsideTimes(ccd_in) : toi <= t
        /\ (MeetInsideTimes(ccd_in) = {} /\ MeetOutsideTimes(ccd_in) # {}) =>
               (rf_pc = "done" /\ ~is_impacting)


(***************************************************************************)
(* NCPSolver::solve_ncp with the LINEARIZED update and the Gauss-Seidel    *)
(* LCP solver, on the problems of TEST_CASE NCP (part_000:186-343).        *)
(* Reals are fixed-point numbers, NcpScale units to one.                   *)
(***************************************************************************)
NcpScale == 4000

\* solver.max_iterations, bounding the outer loop and the sweeps alike
MaxIterations == 12

FxMul(a, b) == (a * b) \div NcpScale
FxDiv(a, b) == (a * NcpScale) \div b

\* the circle constraint's centre (1, 2.5)
CircleCentre == <<NcpScale, (5 * NcpScale) \div 2>>

\* part_000:203-254: g_diff's values for the four sections
eval_g(kind, x) ==
    [i \in 1..2 |->
        CASE kind = "linear" -> x[i]
          [] kind = "quadratic" ->
                 ((IF i = 1 THEN 4 ELSE 9) * NcpScale) \div 100 - FxMul(x[i], x[i])
          [] kind = "abs" ->
                 ((IF i = 1 THEN 2 ELSE 3) * NcpScale) \div 10
                 - (IF x[i] > 0 THEN x[i] ELSE -x[i])
          [] kind = "circle" ->
                 NcpScale - FxMul(x[i] - CircleCentre[i], x[i] - CircleCentre[i])]

\* part_000:293-301: the gradients of g_diff; constraint i depends on x_i
\* alone, so only the diagonal of the Jacobian is kept
eval_jac_g(kind, x) ==
    [i \in 1..2 |->
        CASE kind = "linear" -> NcpScale
          [] kind = "quadratic" -> -2 * x[i]
          [] kind = "abs" -> IF x[i] > 0 THEN -NcpScale ELSE NcpScale
          [] kind = "circle" -> -2 * (x[i] - CircleCentre[i])]

\* the linearised complementarity problem at x for A = I:
\* M = J A^-1 J^T and q = g(x) + J (A^-1 b - x)
lcp_M(in, x) == [i \in 1..2 |-> FxMul(eval_jac_g(in.g, x)[i], eval_jac_g(in.g, x)[i])]
lcp_q(in, x) ==
    [i \in 1..2 |-> eval_g(in.g, x)[i] + FxMul(eval_jac_g(in.g, x)[i], in.b[i] - x[i])]

\* a slip: the update is not projected onto lambda >= 0
gauss_seidel_sweep_unprojected(in, x, lambda) ==
    [i \in 1..2 |->
        lambda[i] - FxDiv(FxMul(lcp_M(in, x)[i], lambda[i]) + lcp_q(in, x)[i],
                          lcp_M(in, x)[i])]

\* one Gauss-Seidel sweep: lambda_i <- max(0, lambda_i - (M lambda + q)_i / M_ii)
gauss_seidel_sweep(in, x, lambda) ==
    [i \in 1..2 |->
        Max(0, lambda[i]
               - FxDiv(FxMul(lcp_M(in, x)[i], lambda[i]) + lcp_q(in, x)[i],
                       lcp_M(in, x)[i]))]

Abs(v) == IF v < 0 THEN -v ELSE v

\* a slip: only stationarity is measured
ncp_residual_stationarity_only(in, x, lambda) ==
    Abs(x[1] - in.b[1] - FxMul(eval_jac_g(in.g, x)[1], lambda[1]))
    + Abs(x[2] - in.b[2] - FxMul(eval_jac_g(in.g, x)[2], lambda[2]))

\* ||A x - b - grad g(x)^T lambda|| + ||min(lambda, g(x))||, in the 1-norm
ncp_residual(in, x, lambda) ==
    Abs(x[1] - in.b[1] - FxMul(eval_jac_g(in.g, x)[1], lambda[1]))
    + Abs(x[2] - in.b[2] - FxMul(eval_jac_g(in.g, x)[2], lambda[2]))
    + Abs(Min(lambda[1], eval_g(in.g, x)[1]))
    + Abs(Min(lambda[2], eval_g(in.g, x)[2]))

\* b = (-1, -2.5) of the test and a b whose first constraint stays inactive;
\* tolerance 0 can never be met
NcpProblems ==
    [g : {"linear", "quadratic", "abs", "circle"},
     b : {<<-NcpScale, -(5 * NcpScale) \div 2>>, <<NcpScale \div 10, -(5 * NcpScale) \div 2>>},
     max_iterations : {1, 3, MaxIterations},
     convergence_tolerance : {0, 8}]

\* part_000:339: the call; x starts at A^-1 b with no multipliers
solve_ncp ==
    /\ fn_op = "none"
    /\ \E p \in NcpProblems :
           /\ fn_in' = p
           /\ fn_out' = [pc |-> "outer", x |-> p.b, alpha |-> <<0, 0>>,
                         iter |-> 0, sweeps |-> 0, success |-> FALSE]
    /\ fn_op' = "solve_ncp"
    /\ UNCHANGED <<state_vars, toi_vars>>

\* the head of the outer loop: converged, out of iterations, or one more
\* linearisation
ncp_outer_iteration ==
    /\ fn_op = "solve_ncp"
    /\ fn_out.pc = "outer"
    /\ fn_out' =
           IF ncp_residual(fn_in, fn_out.x, fn_out.alpha) < fn_in.convergence_tolerance
           THEN [fn_out EXCEPT !.pc = "done", !.success = TRUE]
           ELSE IF fn_out.iter >= fn_in.max_iterations
           THEN [fn_out EXCEPT !.pc = "done", !.success = FALSE]
           ELSE [fn_out EXCEPT !.pc = "lcp", !.iter = @ + 1, !.sweeps = 0]
    /\ UNCHANGED <<fn_op, fn_in>>
    /\ UNCHANGED <<state_vars, toi_vars>>

\* the inner solver: sweep until nothing changes or the bound is reached,
\* then x <- A^-1 (b + J^T lambda)
ncp_gauss_seidel ==
    /\ fn_op = "solve_ncp"
    /\ fn_out.pc = "lcp"
    /\ fn_out' =
           IF /\ fn_out.sweeps < fn_in.max_iterations
              /\ gauss_seidel_sweep(fn_in, fn_out.x, fn_out.alpha) # fn_out.alpha
           THEN [fn_out EXCEPT !.alpha = gauss_seidel_sweep(fn_in, fn_out.x, @),
                               !.sweeps = @ + 1]
           ELSE [fn_out EXCEPT
                     !.x = [i \in 1..2 |->
                               fn_in.b[i] + FxMul(eval_jac_g(fn_in.g, fn_out.x)[i],
                                                  fn_out.alpha[i])],
                     !.pc = "outer"]
    /\ UNCHANGED <<fn_op, fn_in>>
    /\ UNCHANGED <<state_vars, toi_vars>>

NcpNext ==
    \/ solve_ncp
    \/ ncp_outer_iteration
    \/ ncp_gauss_seidel

SpecNcp == Init /\ [][NcpNext]_vars

\* the solver's loop is a plain sequential loop: it keeps running
FairSpecNcp == SpecNcp /\ WF_vars(NcpNext)

NcpCalled == fn_op = "solve_ncp"
NcpReturned == fn_op = "solve_ncp" /\ fn_out.pc = "done"

\* part_000:202-254: expected
NcpExpected(kind) ==
    CASE kind = "linear" -> <<0, 0>>
      [] kind \in {"quadratic", "abs"} -> <<-(2 * NcpScale) \div 10, -(3 * NcpScale) \div 10>>
      [] kind = "circle" -> <<0, (3 * NcpScale) \div 2>>

C18_SolveNcpTerminates ==
    /\ [](NcpCalled =>
            /\ fn_out.iter <= fn_in.max_iterations
            /\ fn_out.sweeps <= fn_in.max_iterations
            /\ \A i \in 1..2 : fn_out.alpha[i] >= 0
            /\ fn_out.pc = "done" =>
                   fn_out.success =
                       (ncp_residual(fn_in, fn_out.x, fn_out.alpha)
                            < fn_in.convergence_tolerance))
    /\ NcpCalled ~> NcpReturned

\* a run that used up every iteration and came back with success = false
C18_Witness ==
    /\ NcpReturned
    /\ ~fn_out.success
    /\ fn_out.iter = fn_in.max_iterations
    /\ fn_in.max_iterations > 1
    /\ fn_out.x # fn_in.b


(***************************************************************************)
(* NewtonSolver::solve (part_003:22-82) on a barrier problem whose         *)
(* has_collisions is DistanceBarrierRBProblem::has_collisions: one vertex  *)
(* carried by the dofs, a fixed edge in its way                            *)
(***************************************************************************)
\* the step length 1, in the units step lengths are counted in
StepUnit == 64

\* the solver's bound on Newton iterations
MaxNewtonIterations == 6

\* distance_barrier_rb_problem.cpp:133-137: dofs to poses to world vertices;
\* the body is a single vertex and its dofs are its position
world_vertices(sigma) == sigma

\* constraint_.has_active_collisions(xi, xj): the vertex's straight path from
\* xi to xj touches the fixed edge from (wall.x, -wall.half_height) to
\* (wall.x, wall.half_height)
has_active_collisions(wall, xi, xj) ==
    IF xi[1] = xj[1]
    THEN /\ xi[1] = wall.x
         /\ Min(xi[2], xj[2]) <= wall.half_height
         /\ Max(xi[2], xj[2]) >= -wall.half_height
    ELSE /\ Min(xi[1], xj[1]) <= wall.x
         /\ wall.x <= Max(xi[1], xj[1])
         /\ Abs(xi[2] * (xj[1] - xi[1]) + (wall.x - xi[1]) * (xj[2] - xi[2]))
                <= wall.half_height * Abs(xj[1] - xi[1])

\* distance_barrier_rb_problem.cpp:130-139
has_collisions(in, sigma_i, sigma_j) ==
    has_active_collisions(in.wall, world_vertices(sigma_i),
                          world_vertices(sigma_j))

\* the objective 2 |sigma - target|^2, its gradient, and the Hessian the
\* problem hands out (exact, 4, or an underestimate, 1)
eval_f(in, sigma) ==
    2 * ((sigma[1] - in.target[1]) ^ 2 + (sigma[2] - in.target[2]) ^ 2)

eval_grad_f(in, sigma) == [i \in 1..2 |-> 4 * (sigma[i] - in.target[i])]

eval_hessian_f(in, sigma) == [i \in 1..2 |-> in.hessian]

\* part_003:67-81: delta_x = -H^-1 grad f
compute_direction(gradient, hessian) ==
    [k \in 1..Len(gradient) |-> -(gradient[k] \div hessian[k])]

\* a slip: the free solution is copied to the front of delta_x
compute_free_direction_front(gradient_free, hessian_free, free_dof, num_vars) ==
    [i \in 1..num_vars |->
        IF i <= Len(free_dof)
        THEN compute_direction(gradient_free, hessian_free)[i]
        ELSE 0]

\* part_003:46-65: the direction of the free dofs, stored at their indices
\* in a full-length delta_x whose other entries are zero
compute_free_direction(gradient_free, hessian_free, free_dof, num_vars) ==
    [i \in 1..num_vars |->
        IF \E k \in 1..Len(free_dof) : free_dof[k] = i
        THEN compute_direction(gradient_free, hessian_free)[
                 CHOOSE k \in 1..Len(free_dof) : free_dof[k] = i]
        ELSE 0]

\* the indices of the dofs not marked in is_dof_fixed, in order
FreeDof(is_dof_fixed) ==
    SelectSeq(<<1, 2>>, LAMBDA i : ~is_dof_fixed[i])

\* x + step_length * delta_x
StepTo(x, step_length, delta_x) ==
    [i \in 1..2 |-> x[i] + (step_length * delta_x[i]) \div StepUnit]

\* a slip: the path of the step is not checked
line_search_accepts_merit_only(in, x, x_next) ==
    eval_f(in, x_next) < eval_f(in, x)

\* the line search's test of one step length
line_search_accepts(in, x, x_next) ==
    /\ eval_f(in, x_next) < eval_f(in, x)
    /\ ~has_collisions(in, x, x_next)

NewtonProblems ==
    [x0 : {<<0, 0>>, <<0, 48>>},
     target : {<<128, 0>>, <<64, 32>>, <<-64, 0>>},
     wall : {[x |-> 80, half_height |-> 16]},
     is_dof_fixed : {<<FALSE, FALSE>>, <<FALSE, TRUE>>, <<TRUE, FALSE>>},
     hessian : {4, 1},
     min_step_length : {1, 8},
     max_iterations : {2, MaxNewtonIterations}]

\* part_003:43-44: the call
newton_solve ==
    /\ fn_op = "none"
    /\ \E p \in NewtonProblems :
           /\ fn_in' = p
           /\ fn_out' = [pc |-> "direction", x |-> p.x0, delta_x |-> <<0, 0>>,
                         step_length |-> StepUnit, iteration_number |-> 0,
                         success |-> FALSE]
    /\ fn_op' = "newton_solve"
    /\ UNCHANGED <<state_vars, toi_vars>>

\* the head of the loop: converged on the free dofs, out of iterations, or
\* a new direction and a line search from step length 1
newton_direction ==
    /\ fn_op = "newton_solve"
    /\ fn_out.pc = "direction"
    /\ LET free_dof == FreeDof(fn_in.is_dof_fixed)
           gradient_free == [k \in 1..Len(free_dof) |->
                                eval_grad_f(fn_in, fn_out.x)[free_dof[k]]]
           hessian_free == [k \in 1..Len(free_dof) |->
                               eval_hessian_f(fn_in, fn_out.x)[free_dof[k]]]
       IN fn_out' =
              IF \A k \in 1..Len(free_dof) : gradient_free[k] = 0
              THEN [fn_out EXCEPT !.pc = "done", !.success = TRUE]
              ELSE IF fn_out.iteration_number >= fn_in.max_iterations
              THEN [fn_out EXCEPT !.pc = "done"]
              ELSE [fn_out EXCEPT
                        !.pc = "line_search",
                        !.iteration_number = @ + 1,
                        !.step_length = StepUnit,
                        !.delta_x = compute_free_direction(gradient_free,
                                        hessian_free, free_dof, 2)]
    /\ UNCHANGED <<fn_op, fn_in>>
    /\ UNCHANGED <<state_vars, toi_vars>>

\* one turn of the line search: give up below min_step_length, accept the
\* step, or halve it
newton_line_search ==
    /\ fn_op = "newton_solve"
    /\ fn_out.pc = "line_search"
    /\ fn_out' =
           IF fn_out.step_length < fn_in.min_step_length
           THEN [fn_out EXCEPT !.pc = "done"]
           ELSE IF line_search_accepts(fn_in, fn_out.x,
                       StepTo(fn_out.x, fn_out.step_length, fn_out.delta_x))
           THEN [fn_out EXCEPT
                     !.x = StepTo(fn_out.x, fn_out.step_length, fn_out.delta_x),
                     !.pc = "direction"]
           ELSE [fn_out EXCEPT !.step_length = @ \div 2]
    /\ UNCHANGED <<fn_op, fn_in>>
    /\ UNCHANGED <<state_vars, toi_vars>>

NewtonNext ==
    \/ newton_solve
    \/ newton_direction
    \/ newton_line_search

SpecNewton == Init /\ [][NewtonNext]_vars

\* the solver's loops are plain sequential loops: they keep running
FairSpecNewton == SpecNewton /\ WF_vars(NewtonNext)

NewtonCalled == fn_op = "newton_solve"
InLineSearch == fn_op = "newton_solve" /\ fn_out.pc = "line_search"

\* C19: every step the line search accepts strictly decreases the merit and
\* has has_collisions(sigma, sigma + step) = false; each rejection halves
\* the step; the search gives up once the step length is below
\* min_step_length; and it always terminates
C19_LineSearchSafeAndFinite ==
    /\ [][InLineSearch =>
            /\ fn_out'.x # fn_out.x =>
                   /\ eval_f(fn_in, fn_out'.x) < eval_f(fn_in, fn_out.x)
                   /\ ~has_collisions(fn_in, fn_out.x, fn_out'.x)
                   /\ fn_out'.x = StepTo(fn_out.x, fn_out.step_length, fn_out.delta_x)
            /\ (fn_out'.pc = "line_search") =>
                   /\ fn_out'.step_length = fn_out.step_length \div 2
                   /\ fn_out.step_length >= fn_in.min_step_length
            /\ (fn_out'.pc = "done") =>
                   (fn_out.step_length < fn_in.min_step_length /\ ~fn_out'.success)
       ]_vars
    /\ InLineSearch ~> ~InLineSearch

\* a step accepted after being halved because its full length ran into the
\* edge
C19_Witness ==
    /\ NewtonCalled
    /\ fn_out.pc = "direction"
    /\ fn_out.iteration_number > 0
    /\ fn_out.step_length < StepUnit
    /\ has_collisions(fn_in, fn_in.x0, StepTo(fn_in.x0, StepUnit, fn_out.delta_x))
    /\ fn_out.x # fn_in.x0
    /\ ~has_collisions(fn_in, fn_in.x0, fn_out.x)

\* C20: compute_free_direction returns a full-length delta_x whose entries
\* at fixed dofs are exactly zero, so a Newton step never changes a dof
\* marked in is_dof_fixed
C20_FixedDofsStay ==
    NewtonCalled =>
        /\ Len(fn_out.delta_x) = Len(fn_in.x0)
        /\ \A i \in 1..Len(fn_in.x0) :
               fn_in.is_dof_fixed[i] =>
                   (fn_out.delta_x[i] = 0 /\ fn_out.x[i] = fn_in.x0[i])

\* a step was taken along a free dof while the fixed dof, still away from
\* its target, stayed where it was
C20_Witness ==
    /\ NewtonCalled
    /\ fn_in.is_dof_fixed = <<TRUE, FALSE>>
    /\ fn_out.x[1] # fn_in.target[1]
    /\ fn_out.delta_x[2] # 0
    /\ fn_out.x[2] # fn_in.x0[2]


(***************************************************************************)
(* Properties of the scene container under edits                           *)
(***************************************************************************)
\* C23: after any sequence of load_scene, add_vertex and add_edges every row
\* (i, j) of edges has i # j, 0 <= i < |vertices| and 0 <= j < |vertices|
C23_EdgesNameExistingVertices ==
    \A r \in 1..Len(edges) :
        /\ edges[r][1] # edges[r][2]
        /\ 0 <= edges[r][1] /\ edges[r][1] < Len(vertices)
        /\ 0 <= edges[r][2] /\ edges[r][2] < Len(vertices)


\* C28: after any sequence of load_scene, reset_scene, add_vertex, add_edges,
\* set_vertex_position, move_vertex and move_displacement, displacements and
\* opt_displacements have as many rows as vertices, volumes and
\* edge_impact_map have one entry per edge, and volume_grad is
\* (number of vertex coordinates) x (number of edges), as the assertions of
\* compute_collision_volumes require
C28_ContainerSizesConsistent ==
    /\ Len(displacements) = Len(vertices)
    /\ Len(opt_displacements) = Len(vertices)
    /\ Len(volumes) = Len(edges)
    /\ Len(edge_impact_map) = Len(edges)
    /\ volume_grad.rows = 2 * Len(vertices)
    /\ volume_grad.cols = Len(edges)
    /\ DOMAIN volume_grad.val = (1..(2 * Len(vertices))) \X (1..Len(edges))

\* a loaded scene grown by a vertex: every container followed
C28_Witness ==
    /\ last_op = "add_vertex"
    /\ num_edits = 2
    /\ Len(vertices) >= 3
    /\ Len(edges) >= 1
    /\ volume_grad.rows = 2 * Len(vertices)
    /\ Len(opt_displacements) = Len(vertices)


\* the two lists hold no record twice
NoImpactTwice ==
    /\ \A i \in 1..Len(ev_impacts) : \A j \in 1..Len(ev_impacts) :
           ev_impacts[i] = ev_impacts[j] => i = j
    /\ \A i \in 1..Len(ee_impacts) : \A j \in 1..Len(ee_impacts) :
           ee_impacts[i] = ee_impacts[j] => i = j

SizeModulus == 65536

\* size_t(v) for an int v: the value modulo the number of values
size_t(v) == v % SizeModulus

\* ee_impacts[ee_impact_id] outside the vector is undefined: the build either
\* faults or hands back whatever lies at that address
OutOfBoundsReads == {"fault", "garbage"}

get_edge_impact ==
    /\ \E edge_id \in 0..(Len(edge_impact_map) - 1) :
           \E ee_impact_id \in {size_t(At(edge_impact_map, edge_id))} :
               /\ fn_in' = [edge_id |-> edge_id]
               /\ \E outcome \in
                      (IF ~(ee_impact_id >= 0) THEN {"assertion"}
                       ELSE IF ee_impact_id < Len(ee_impacts) THEN {"impact"}
                       ELSE OutOfBoundsReads) :
                      fn_out' = [entry |-> At(edge_impact_map, edge_id),
                                 ee_impact_id |-> ee_impact_id,
                                 size |-> Len(ee_impacts),
                                 outcome |-> outcome]
    /\ fn_op' = "get_edge_impact"
    /\ UNCHANGED <<state_vars, toi_vars>>

EdgeImpactNext ==
    \/ load_scene
    \/ move_vertex
    \/ detect_edge_vertex_collisions
    \/ get_edge_impact

SpecEdgeImpact == Init /\ [][EdgeImpactNext]_vars

\* C30: get_edge_impact never reads outside ee_impacts: for an edge whose
\* edge_impact_map entry is -1 the call is stopped by its assertion, and for
\* every other edge the index used is within [0, |ee_impacts|)
C30_GetEdgeImpactInBounds ==
    fn_op = "get_edge_impact" =>
        IF fn_out.entry = -1
        THEN fn_out.outcome = "assertion"
        ELSE /\ 0 <= fn_out.ee_impact_id
             /\ fn_out.ee_impact_id < fn_out.size
             /\ fn_out.outcome = "impact"


(***************************************************************************)
(* Scene files: State::load_scene and State::save_scene                    *)
(* (state.cpp:22-64) with the reader and writer of read_scene.hpp          *)
(***************************************************************************)
\* io::read_scene: the vertices, edges and displacements a file holds
read_scene(f) == <<f.vertices, f.edges, f.displacements>>

\* io::write_scene: the file made of the three matrices
write_scene(V, E, U) == [vertices |-> V, edges |-> E, displacements |-> U]

\* State::load_scene, the file kept at hand for a later comparison
load_scene_file ==
    /\ \E f \in SceneFiles :
           \E fitted \in {FitToCanvas(read_scene(f)[1], read_scene(f)[3])} :
               /\ vertices' = fitted[1]
               /\ edges' = read_scene(f)[2]
               /\ displacements' = fitted[2]
               /\ ResetSceneOn(fitted[1], fitted[2], read_scene(f)[2])
               /\ fn_in' = f
    /\ fn_op' = "load_scene"
    /\ fn_out' = <<>>
    /\ num_edits < MaxEdits
    /\ num_edits' = num_edits + 1
    /\ last_op' = "load_scene"
    /\ results_before' = HoldsResults
    /\ UNCHANGED <<num_pruned_impacts, volume_epsilon, sort_build>>
    /\ UNCHANGED toi_vars

\* State::save_scene; after_load: the scene was loaded and not edited since
save_scene ==
    /\ fn_op' = "save_scene"
    /\ fn_in' = [filename |-> "g"]
    /\ fn_out' =
           [after_load |-> fn_op = "load_scene" /\ last_op = "load_scene",
            loaded |-> IF fn_op = "load_scene" /\ last_op = "load_scene"
                       THEN fn_in ELSE <<>>,
            written |-> write_scene(vertices, edges, displacements)]
    /\ UNCHANGED <<state_vars, toi_vars>>

SceneFileNext ==
    \/ load_scene_file
    \/ save_scene
    \/ add_vertex
    \/ move_vertex
    \/ move_displacement

SpecSceneFile == Init /\ [][SceneFileNext]_vars

\* C24: load_scene(f) followed by save_scene(g) with no edit in between
\* writes to g the vertices, edges and displacements that f held
C24_LoadSaveRoundTrip ==
    (fn_op = "save_scene" /\ fn_out.after_load) =>
        fn_out.written = fn_out.loaded


(***************************************************************************)
(* Matrix serialization (part_004:14-28 and 46-65)                         *)
(***************************************************************************)
\* largest number of rows and of columns of a serialized matrix
JsonMaxRows == 2
JsonMaxCols == 2

\* an Eigen::MatrixX<T>: its sizes and its rows
MatricesOf(r, c) ==
    [rows : {r}, cols : {c}, val : [1..r -> [1..c -> {0, 1}]]]

JsonMatrices ==
    UNION {MatricesOf(r, c) : r \in 0..JsonMaxRows, c \in 0..JsonMaxCols}

\* what the output matrix may hold before from_json is called
OutputsBefore ==
    {[rows |-> 0, cols |-> 0, val |-> <<>>],
     [rows |-> 1, cols |-> 2, val |-> <<<<1, 0>>>>],
     [rows |-> 2, cols |-> 1, val |-> <<<<0>>, <<1>>>>]}

\* part_004:14-28: a list of num_rows lists of num_cols entries
to_json(matrix) ==
    [i \in 1..matrix.rows |-> [j \in 1..matrix.cols |-> matrix.val[i][j]]]

\* part_004:46-65: an empty list returns at once and leaves the matrix as it
\* was; otherwise the matrix is resized and filled row by row
from_json(json, matrix) ==
    IF Len(json) = 0
    THEN matrix
    ELSE [rows |-> Len(json), cols |-> Len(json[1]),
          val |-> [i \in 1..Len(json) |-> json[i]]]

call_to_json ==
    /\ fn_op = "none"
    /\ \E matrix \in JsonMatrices :
           /\ fn_in' = [matrix |-> matrix]
           /\ fn_out' = [json |-> to_json(matrix)]
    /\ fn_op' = "to_json"
    /\ UNCHANGED <<state_vars, toi_vars>>

call_from_json ==
    /\ fn_op = "to_json"
    /\ \E before \in OutputsBefore :
           /\ fn_in' = [matrix |-> fn_in.matrix, before |-> before]
           /\ fn_out' = [json |-> fn_out.json,
                         out |-> from_json(fn_out.json, before)]
    /\ fn_op' = "from_json"
    /\ UNCHANGED <<state_vars, toi_vars>>

JsonNext ==
    \/ call_to_json
    \/ call_from_json

SpecJson == Init /\ [][JsonNext]_vars

\* C25: for every matrix M, including one with zero rows, and whatever the
\* output matrix held before, from_json(to_json(M), out) leaves out with the
\* rows, columns and entries of M
C25_MatrixRoundTrip ==
    fn_op = "from_json" =>
        /\ fn_out.out.rows = fn_in.matrix.rows
        /\ fn_out.out.cols = fn_in.matrix.cols
        /\ fn_out.out.val = fn_in.matrix.val


(***************************************************************************)
(* Exact scalars for the barrier problem: rationals, and the autodiff      *)
(* scalar DDouble1 (a value and its gradient over the active variables)    *)
(***************************************************************************)
FInt(n) == Frac(n, 1)
FAdd(x, y) == Frac(x.num * y.den + y.num * x.den, x.den * y.den)
FSub(x, y) == Frac(x.num * y.den - y.num * x.den, x.den * y.den)
FMul(x, y) == Frac(x.num * y.num, x.den * y.den)
FDiv(x, y) == Frac(x.num * y.den, x.den * y.num)
\* the root of a square
FSqrt(x) == Frac(Isqrt(x.num), Isqrt(x.den))

\* F of the value of e, with e worked out once
Once(e, F(_)) == CHOOSE r \in {F(v) : v \in {e}} : TRUE

\* a gradient vector, stored as a tuple of its entries
GradVec(g) == g \o <<>>

\* a constant, and the independent variable number index of n (Diff::dTvars);
\* n = 0 is a plain double
DConst(n, v) == [value |-> v, grad |-> GradVec([i \in 1..n |-> FInt(0)])]
DVar(n, index, v) ==
    [value |-> v,
     grad |-> GradVec([i \in 1..n |-> IF i = index + 1 THEN FInt(1) ELSE FInt(0)])]

DAdd(a, b) ==
    Once(<<a, b>>, LAMBDA x :
        [value |-> FAdd(x[1].value, x[2].value),
         grad |-> GradVec([i \in DOMAIN x[1].grad |->
                              FAdd(x[1].grad[i], x[2].grad[i])])])
DSub(a, b) ==
    Once(<<a, b>>, LAMBDA x :
        [value |-> FSub(x[1].value, x[2].value),
         grad |-> GradVec([i \in DOMAIN x[1].grad |->
                              FSub(x[1].grad[i], x[2].grad[i])])])
DMul(a, b) ==
    Once(<<a, b>>, LAMBDA x :
        [value |-> FMul(x[1].value, x[2].value),
         grad |-> GradVec([i \in DOMAIN x[1].grad |->
                              FAdd(FMul(x[1].value, x[2].grad[i]),
                                   FMul(x[2].value, x[1].grad[i]))])])
DDiv(a, b) ==
    Once(<<a, b>>, LAMBDA x :
        [value |-> FDiv(x[1].value, x[2].value),
         grad |-> GradVec([i \in DOMAIN x[1].grad |->
                              FDiv(FSub(FMul(x[2].value, x[1].grad[i]),
                                        FMul(x[1].value, x[2].grad[i])),
                                   FMul(x[2].value, x[2].value))])])
DSqrt(a) ==
    Once(a, LAMBDA x :
        [value |-> FSqrt(x.value),
         grad |-> GradVec([i \in DOMAIN x.grad |->
                              FDiv(x.grad[i], FMul(FInt(2), FSqrt(x.value)))])])

\* cosine and sine of a whole number of quarter turns
CosQ(k) == <<1, 0, -1, 0>>[(k % 4) + 1]
SinQ(k) == <<0, 1, 0, -1>>[(k % 4) + 1]

\* of an angle whose value is a whole number of quarter turns; the gradient
\* is taken per radian
DCos(a) ==
    Once(a, LAMBDA x :
        [value |-> FInt(CosQ(x.value.num)),
         grad |-> GradVec([i \in DOMAIN x.grad |->
                              FMul(FInt(-SinQ(x.value.num)), x.grad[i])])])
DSin(a) ==
    Once(a, LAMBDA x :
        [value |-> FInt(SinQ(x.value.num)),
         grad |-> GradVec([i \in DOMAIN x.grad |->
                              FMul(FInt(CosQ(x.value.num)), x.grad[i])])])

(***************************************************************************)
(* Geometry of the rigid bodies (rigid_body.hpp) and of the constraint     *)
(***************************************************************************)
\* rigid_body.hpp:113-127: R(theta) v + p for the pose <<x, y, theta>>
rb_world_vertex(pose, v) ==
    Once(<<pose[1], pose[2], DCos(pose[3]), DSin(pose[3]),
           DConst(Len(pose[1].grad), FInt(v[1])),
           DConst(Len(pose[1].grad), FInt(v[2]))>>,
         LAMBDA x :
             <<DAdd(DSub(DMul(x[3], x[5]), DMul(x[4], x[6])), x[1]),
               DAdd(DAdd(DMul(x[4], x[5]), DMul(x[3], x[6])), x[2])>>)

\* ccd::geometry::point_segment_distance(p, a, b): the distance from p to the
\* nearest point of the segment
point_segment_distance(p, a, b) ==
    Once(<< <<DSub(b[1], a[1]), DSub(b[2], a[2])>>,
            <<DSub(p[1], a[1]), DSub(p[2], a[2])>> >>,
         LAMBDA x :
             LET n == Len(x[1][1].grad)
                 ab == x[1]
                 ap == x[2]
             IN Once(DDiv(DAdd(DMul(ap[1], ab[1]), DMul(ap[2], ab[2])),
                          DAdd(DMul(ab[1], ab[1]), DMul(ab[2], ab[2]))),
                     LAMBDA s :
                         Once(IF s.value.num <= 0 THEN DConst(n, FInt(0))
                              ELSE IF s.value.num >= s.value.den
                              THEN DConst(n, FInt(1))
                              ELSE s,
                              LAMBDA t :
                                  Once(<<DSub(ap[1], DMul(t, ab[1])),
                                         DSub(ap[2], DMul(t, ab[2]))>>,
                                       LAMBDA w :
                                           DSqrt(DAdd(DMul(w[1], w[1]),
                                                      DMul(w[2], w[2])))))))

\* constraint_.distance_barrier(d): zero from barrier_epsilon on, growing
\* without bound as d falls to 0: (eps - d)^3 / d
constraint_distance_barrier(eps, d) ==
    Once(d, LAMBDA x :
        IF ~FracLess(x.value, FInt(eps)) THEN DConst(Len(x.grad), FInt(0))
        ELSE Once(DSub(DConst(Len(x.grad), FInt(eps)), x),
                  LAMBDA r : DDiv(DMul(r, DMul(r, r)), x)))


(***************************************************************************)
(* DistanceBarrierRBProblem: the constraint and its derivatives            *)
(* (distance_barrier_rb_problem.cpp:169-562)                               *)
(***************************************************************************)
\* how a member function ends
Raise == [error |-> "NotImplementedError", value |-> <<>>]
Return(v) == [error |-> "none", value |-> v]

\* physics::Pose<double>::dim_to_ndof
dim_to_ndof(dim) == IF dim = 2 THEN 3 ELSE 6

num_vars(p) == dim_to_ndof(p.dim) * Len(p.rbs)

\* v.segment(start, n), start counted from 0
segment(v, start, n) == [i \in 1..n |-> v[start + i]]

\* the number of vertices of the bodies before body b
VertexOffset(p, b) == SumSeq([i \in 1..b |-> Len(p.rbs[i].vertices)])

\* m_assembler.global_to_local: <<body, local vertex>> of a global vertex
global_to_local(p, v_id) ==
    LET b == CHOOSE b \in 0..(Len(p.rbs) - 1) :
                 VertexOffset(p, b) <= v_id /\ v_id < VertexOffset(p, b + 1)
    IN <<b, v_id - VertexOffset(p, b)>>

\* lines 473-485: the bodies and local vertices of a candidate
local_system(p, ev_candidate) ==
    LET v == global_to_local(p, ev_candidate.vertex_index)
        e0 == global_to_local(p, At(p.edges, ev_candidate.edge_index)[1])
        e1 == global_to_local(p, At(p.edges, ev_candidate.edge_index)[2])
    IN [vertex_body_id |-> v[1], edge_body_id |-> e1[1],
        vertex_local_id |-> v[2], edge0_local_id |-> e0[2],
        edge1_local_id |-> e1[2]]

\* lines 465-486
extract_local_system(p, ev_candidate) ==
    IF p.dim # 2 THEN Raise ELSE Return(local_system(p, ev_candidate))

\* lines 385-420 and 433-462: the distance of the candidate's vertex from its
\* edge, with the vertex body's dofs as the variables first_V, first_V + 1, ..
\* of n and the edge body's dofs as first_E, first_E + 1, ..
distance_of(p, n, first_V, first_E, sigma, rbc) ==
    LET ndof == dim_to_ndof(p.dim)
        pose(body, first) ==
            GradVec([j \in 1..ndof |->
                DMul(DVar(n, first + j - 1, FInt(sigma[ndof * body + j])),
                     DConst(n, FInt(p.dof_to_pose[ndof * body + j])))])
    IN Once(<<pose(rbc.vertex_body_id, first_V), pose(rbc.edge_body_id, first_E)>>,
            LAMBDA poses :
                LET pose_V == poses[1]
                    pose_E == poses[2]
                    edge_vertices == p.rbs[rbc.edge_body_id + 1].vertices
                    vertex_vertices == p.rbs[rbc.vertex_body_id + 1].vertices
                IN Once(<<rb_world_vertex(pose_E, At(edge_vertices, rbc.edge0_local_id)),
                          rb_world_vertex(pose_E, At(edge_vertices, rbc.edge1_local_id)),
                          rb_world_vertex(pose_V, At(vertex_vertices, rbc.vertex_local_id))>>,
                        LAMBDA d : point_segment_distance(d[3], d[1], d[2])))

\* lines 376-463: distance<T> for T = "double" and T = "DDouble1"
rb_distance(p, T, sigma, rbc) ==
    IF p.dim # 2 THEN Raise
    ELSE IF T = "double" THEN Return(distance_of(p, 0, 0, 0, sigma, rbc))
    ELSE Return(distance_of(p, 2 * dim_to_ndof(p.dim), 0, dim_to_ndof(p.dim),
                            sigma, rbc))

\* lines 362-374
rb_distance_barrier(p, T, sigma, rbc) ==
    IF p.dim # 2 THEN Raise
    ELSE Once(rb_distance(p, T, sigma, rbc), LAMBDA d :
             IF d.error # "none" THEN d
             ELSE Return(constraint_distance_barrier(p.barrier_epsilon, d.value)))

\* lines 281-304: one row per candidate, the head of the local gradient in
\* the columns of the vertex's body, then the tail in those of the edge's
jac_g_rows(p, sigma, distance_candidates) ==
    LET ndof == dim_to_ndof(p.dim)
        in_block(c, body) == ndof * body < c /\ c <= ndof * body + ndof
    IN GradVec([i \in 1..Len(distance_candidates) |->
           Once(<<extract_local_system(p, distance_candidates[i]).value,
                  rb_distance_barrier(p, "DDouble1", sigma,
                      local_system(p, distance_candidates[i])).value.grad>>,
                LAMBDA x :
                    LET rbc == x[1]
                        gradient == x[2]
                    IN [c \in 1..num_vars(p) |->
                           IF in_block(c, rbc.edge_body_id)
                           THEN gradient[ndof + c - ndof * rbc.edge_body_id]
                           ELSE IF in_block(c, rbc.vertex_body_id)
                           THEN gradient[c - ndof * rbc.vertex_body_id]
                           ELSE FInt(0)] \o <<>>)])

\* a slip: the check of dim() is missing
eval_jac_g_core_unguarded(p, sigma, distance_candidates) ==
    IF \E i \in 1..Len(distance_candidates) :
           extract_local_system(p, distance_candidates[i]).error # "none"
    THEN Raise
    ELSE Return([rows |-> Len(distance_candidates), cols |-> num_vars(p),
                 val |-> jac_g_rows(p, sigma, distance_candidates)])

\* lines 272-305
eval_jac_g_core(p, sigma, distance_candidates) ==
    IF p.dim # 2 THEN Raise
    ELSE Return([rows |-> Len(distance_candidates), cols |-> num_vars(p),
                 val |-> jac_g_rows(p, sigma, distance_candidates)])

\* lines 307-360: one num_vars x num_vars matrix per candidate; of each the
\* entries its triplets fill, <<row, column>> counted from 0
eval_hessian_g_core(p, sigma, distance_candidates) ==
    IF p.dim # 2 THEN Raise
    ELSE Return(
        [i \in 1..Len(distance_candidates) |->
            LET rbc == extract_local_system(p, distance_candidates[i]).value
                bodies == <<rbc.vertex_body_id, rbc.edge_body_id>>
            IN [rows |-> num_vars(p), cols |-> num_vars(p),
                filled |-> {<<3 * bodies[b_i] + dim_i, 3 * bodies[b_j] + dim_j>> :
                              <<b_i, b_j, dim_i, dim_j>> \in
                                  (1..2) \X (1..2) \X (0..2) \X (0..2)}]])

\* constraint_.compute_candidates_constraints over the world vertices of
\* sigma: the barrier of every candidate's distance, all num_vars dofs active
compute_candidates_constraints(p, sigma, ev_candidates) ==
    LET ndof == dim_to_ndof(p.dim)
    IN GradVec([i \in 1..Len(ev_candidates) |->
           Once(local_system(p, ev_candidates[i]), LAMBDA rbc :
               constraint_distance_barrier(p.barrier_epsilon,
                   distance_of(p, num_vars(p), ndof * rbc.vertex_body_id,
                               ndof * rbc.edge_body_id, sigma, rbc)))])

\* lines 195-214: the gradients of the constraints over the whole of sigma
eval_jac_g_full(p, sigma, ev_candidates) ==
    Once(compute_candidates_constraints(p, sigma, ev_candidates), LAMBDA g :
        Return([rows |-> Len(g), cols |-> num_vars(p),
                val |-> GradVec([i \in 1..Len(g) |-> g[i].grad])]))

\* lines 169-193; ev_candidates is what get_active_barrier_set found
rb_eval_jac_g(p, sigma, ev_candidates) ==
    eval_jac_g_core(p, sigma, ev_candidates)

\* lines 216-236
eval_hessian_g(p, sigma, ev_candidates) ==
    eval_hessian_g_core(p, sigma, ev_candidates)

\* lines 238-270: gx is assigned before the derivatives are asked for
eval_g_and_gdiff(p, sigma, ev_candidates) ==
    Once(eval_jac_g_core(p, sigma, ev_candidates), LAMBDA jac :
        IF jac.error # "none" THEN jac
        ELSE Once(eval_hessian_g_core(p, sigma, ev_candidates), LAMBDA hess :
            IF hess.error # "none" THEN hess
            ELSE Once(compute_candidates_constraints(p, sigma, ev_candidates),
                      LAMBDA g :
                          Return([gx |-> GradVec([i \in 1..Len(g) |-> g[i].value]),
                                  gx_jacobian |-> jac.value,
                                  gx_hessian |-> hess.value]))))

\* lines 488-540: the finite differences of the distance over sigma, taken
\* to their limit and multiplied by the barrier's slope, against grad
compare_fd(p, sigma, ev_candidate, grad) ==
    IF p.dim # 2 THEN Raise
    ELSE Return(
        grad = compute_candidates_constraints(p, sigma, <<ev_candidate>>)[1].grad)

\* lines 542-562
compare_jac_g(p, sigma, ev_candidates, jac_g) ==
    IF p.dim # 2 /\ ev_candidates # <<>> THEN Raise
    ELSE Return(eval_jac_g_full(p, sigma, ev_candidates).value = jac_g)


\* two bodies: a bar with a loose vertex above it, and a single vertex
BarrierBodies ==
    << [vertices |-> << <<-2, 0>>, <<2, 0>>, <<0, 3>> >>],
       [vertices |-> << <<0, 0>> >>] >>

\* the problems: in 2D with positions counted in dofs of one or two units, and
\* in 3D
BarrierProblems ==
    {[dim |-> 2, rbs |-> BarrierBodies, edges |-> << <<0, 1>> >>,
      dof_to_pose |-> <<s, s, 1, s, s, 1>>, barrier_epsilon |-> 4] :
         s \in {1, 2}}
    \cup {[dim |-> 3, rbs |-> BarrierBodies, edges |-> << <<0, 1>> >>,
           dof_to_pose |-> [i \in 1..12 |-> 1], barrier_epsilon |-> 4]}

\* dofs of the two bodies, rotations in quarter turns: the vertex over the
\* bar, beside the turned bar, below the raised bar
BarrierSigmas(p) ==
    IF p.dim = 2
    THEN {<<0, 0, 0, 0, 1, 0>>, <<0, 0, 1, 1, 0, 0>>, <<0, 1, 0, 0, -1, 2>>}
    ELSE {[i \in 1..12 |-> 0]}

\* candidate lists: none, the bar against the other body's vertex, the bar
\* against its own body's loose vertex, both
CandidateLists ==
    {<<>>,
     <<[edge_index |-> 0, vertex_index |-> 3]>>,
     <<[edge_index |-> 0, vertex_index |-> 2]>>,
     <<[edge_index |-> 0, vertex_index |-> 3],
       [edge_index |-> 0, vertex_index |-> 2]>>}

\* the member functions called with a candidate list, and with one candidate
ListFunctions ==
    {"eval_jac_g", "eval_hessian_g", "eval_g_and_gdiff", "eval_jac_g_core",
     "eval_hessian_g_core", "eval_jac_g_full", "compare_jac_g"}
CandidateFunctions ==
    {"distance", "distance_barrier", "extract_local_system", "compare_fd"}

\* the call of the member function name
Invoke(name, p, sigma, cands) ==
    CASE name = "eval_jac_g" -> rb_eval_jac_g(p, sigma, cands)
      [] name = "eval_hessian_g" -> eval_hessian_g(p, sigma, cands)
      [] name = "eval_g_and_gdiff" -> eval_g_and_gdiff(p, sigma, cands)
      [] name = "eval_jac_g_core" -> eval_jac_g_core(p, sigma, cands)
      [] name = "eval_hessian_g_core" -> eval_hessian_g_core(p, sigma, cands)
      [] name = "eval_jac_g_full" -> eval_jac_g_full(p, sigma, cands)
      [] name = "compare_jac_g" ->
             compare_jac_g(p, sigma, cands, eval_jac_g_core(p, sigma, cands).value)
      [] name = "distance" ->
             rb_distance(p, "DDouble1", sigma, local_system(p, cands[1]))
      [] name = "distance_barrier" ->
             rb_distance_barrier(p, "DDouble1", sigma, local_system(p, cands[1]))
      [] name = "extract_local_system" -> extract_local_system(p, cands[1])
      [] name = "compare_fd" ->
             compare_fd(p, sigma, cands[1],
                        IF p.dim = 2
                        THEN eval_jac_g_core(p, sigma, cands).value.val[1]
                        ELSE <<>>)

BarrierCall(name) ==
    /\ fn_op = "none"
    /\ \E p \in BarrierProblems : \E sigma \in BarrierSigmas(p) :
           \E cands \in CandidateLists :
               /\ name \in CandidateFunctions => cands # <<>>
               \* the whole-vector differentiation of a 3D problem goes
               \* through the 3D world_vertices, which are not part of the model
               /\ name \in {"eval_jac_g_full", "compare_jac_g"} => p.dim = 2
               /\ fn_in' = [problem |-> p, sigma |-> sigma, ev_candidates |-> cands]
               /\ fn_out' = Invoke(name, p, sigma, cands)
    /\ fn_op' = name
    /\ UNCHANGED <<state_vars, toi_vars>>

call_eval_jac_g == BarrierCall("eval_jac_g")
call_eval_hessian_g == BarrierCall("eval_hessian_g")
call_eval_g_and_gdiff == BarrierCall("eval_g_and_gdiff")
call_eval_jac_g_core == BarrierCall("eval_jac_g_core")
call_eval_hessian_g_core == BarrierCall("eval_hessian_g_core")
call_eval_jac_g_full == BarrierCall("eval_jac_g_full")
call_compare_jac_g == BarrierCall("compare_jac_g")
call_distance == BarrierCall("distance")
call_distance_barrier == BarrierCall("distance_barrier")
call_extract_local_system == BarrierCall("extract_local_system")
call_compare_fd == BarrierCall("compare_fd")

BarrierNext ==
    \/ call_eval_jac_g
    \/ call_eval_hessian_g
    \/ call_eval_g_and_gdiff
    \/ call_eval_jac_g_core
    \/ call_eval_hessian_g_core
    \/ call_eval_jac_g_full
    \/ call_compare_jac_g
    \/ call_distance
    \/ call_distance_barrier
    \/ call_extract_local_system
    \/ call_compare_fd

SpecBarrier == Init /\ [][BarrierNext]_vars

\* the member functions that are written for 2D only
TwoDimensionalOnly ==
    {"eval_jac_g", "eval_hessian_g", "eval_g_and_gdiff", "eval_jac_g_core",
     "eval_hessian_g_core", "distance", "distance_barrier",
     "extract_local_system", "compare_fd"}

CornerBodies ==
    << [vertices |-> << <<-2, 0>>, <<2, 0>>, <<2, 4>> >>],
       [vertices |-> << <<0, 0>> >>] >>

\* the heights of the loose vertex that stay inside the bracket
InsideHeights == 0..At(CornerBodies[1].vertices, 2)[2]

\* the settings: how far the broad phase looks for candidates, and the
\* constraint's min_distance
CornerProblems ==
    {[dim |-> 2, rbs |-> CornerBodies, edges |-> << <<0, 1>>, <<1, 2>> >>,
      dof_to_pose |-> <<1, 1, 1, 1, 1, 1>>, barrier_epsilon |-> 4,
      detection_radius |-> r, min_distance |-> m] :
         r \in {3, 4}, m \in {1}}

\* the poses of the two bodies with the loose vertex at height y
CornerPose(y) == <<0, 0, 0, -1, y, 0>>

\* the edge-vertex pairs of different bodies
EdgeVertexPairs(p) ==
    {c \in [edge_index : 0..(Len(p.edges) - 1),
            vertex_index : 0..(VertexOffset(p, Len(p.rbs)) - 1)] :
        local_system(p, c).vertex_body_id # local_system(p, c).edge_body_id}

\* the pairs as a list, by edge and then by vertex
RECURSIVE ListOf(_)
ListOf(S) ==
    IF S = {} THEN <<>>
    ELSE LET c == CHOOSE c \in S : \A o \in S :
                      \/ c.edge_index < o.edge_index
                      \/ /\ c.edge_index = o.edge_index
                         /\ c.vertex_index <= o.vertex_index
         IN <<c>> \o ListOf(S \ {c})

\* the candidate pairs the constraint finds at the world vertices of sigma:
\* the pairs of different bodies closer than the broad phase looks
active_candidates(p, sigma) ==
    ListOf({c \in EdgeVertexPairs(p) :
               FracLess(distance_of(p, 0, 0, 0, sigma, local_system(p, c)).value,
                        FInt(p.detection_radius))})

\* constraint_.debug_compute_distances: the distances of the candidate pairs
debug_compute_distances(p, sigma) ==
    Once(active_candidates(p, sigma), LAMBDA found :
        GradVec([k \in 1..Len(found) |->
                    distance_of(p, 0, 0, 0, sigma, local_system(p, found[k])).value]))

\* d.minCoeff()
minCoeff(d) ==
    Once(d, LAMBDA x :
        x[CHOOSE i \in 1..Len(x) : \A j \in 1..Len(x) : ~FracLess(x[j], x[i])])

\* the sentinel of an evaluation without candidates reads 0
debug_min_distance_zero(p, sigma) ==
    Once(debug_compute_distances(p, sigma), LAMBDA d :
        IF Len(d) > 0 THEN minCoeff(d) ELSE FInt(0))

\* lines 105-117
debug_min_distance(p, sigma) ==
    Once(debug_compute_distances(p, sigma), LAMBDA d :
        IF Len(d) > 0 THEN minCoeff(d) ELSE FInt(-1))

\* m_assembler.m_pose_to_dof * poses_to_dofs(poses)
poses_to_dofs(p, poses) ==
    [i \in 1..Len(poses) |-> poses[i] \div p.dof_to_pose[i]]

\* m_assembler.rb_poses_t0(): the poses the bodies had before the last step
rb_poses_t0(object) == object.pose_prev

\* m_assembler.rb_poses_t1(): the poses the bodies have now
rb_poses_t1(object) == object.pose

\* the collision check of the base problem between two pose vectors: some
\* candidate pair touches at either end (the steps of the model never pass
\* through an edge)
detect_collisions(p, poses_i, poses_j) ==
    \E c \in EdgeVertexPairs(p) : \E q \in {poses_i, poses_j} :
        distance_of(p, 0, 0, 0, poses_to_dofs(p, q), local_system(p, c)).value
            = FInt(0)

\* RigidBodyProblem::simulation_step: every body keeps its pose as pose_prev
\* and takes the unconstrained step; the result is the collision check
RigidBodyProblem_simulation_step(p, object, time_step) ==
    LET next == [i \in 1..Len(object.pose) |->
                    object.pose[i] + time_step * object.velocity[i]]
    IN [object EXCEPT !.pose_prev = object.pose, !.pose = next,
                      !.result = detect_collisions(p, object.pose, next)]

\* RigidBodyProblem::take_step: the bodies take the poses of sigma, their
\* velocities follow, the result is the collision check
RigidBodyProblem_take_step(p, object, sigma, time_step) ==
    LET next == [i \in 1..Len(sigma) |-> p.dof_to_pose[i] * sigma[i]]
    IN [object EXCEPT !.pose = next,
                      !.velocity = [i \in 1..Len(sigma) |->
                                       (next[i] - object.pose_prev[i]) \div time_step],
                      !.result = detect_collisions(p, object.pose_prev, next)]

\* lines 44-64
rb_simulation_step(p, object, time_step) ==
    LET base == RigidBodyProblem_simulation_step(p, object, time_step)
        sigma == poses_to_dofs(p, rb_poses_t0(base))
        min_d == debug_min_distance(p, sigma)
    IN [base EXCEPT
           !.debug_min_distance_ = min_d,
           !.evaluated = debug_compute_distances(p, sigma),
           !.evaluated_at = sigma,
           !.base_result = base.result,
           !.result = IF /\ ~FracLess(min_d, FInt(0))
                         /\ ~FracLess(FInt(p.min_distance), min_d)
                      THEN TRUE ELSE base.result]

\* lines 66-77
rb_take_step(p, object, sigma, time_step) ==
    LET taken == RigidBodyProblem_take_step(p, object, sigma, time_step)
    IN [taken EXCEPT
           !.debug_min_distance_ = debug_min_distance(p, sigma),
           !.evaluated = debug_compute_distances(p, sigma),
           !.evaluated_at = sigma,
           !.base_result = taken.result]

\* JSON's null
JsonNull == [null |-> TRUE]

\* lines 33-42, over the base problem's export of the poses
state(object) ==
    [rigid_bodies |-> object.pose,
     min_distance |-> IF FracLess(object.debug_min_distance_, FInt(0))
                      THEN JsonNull
                      ELSE object.debug_min_distance_]

\* what the member debug_min_distance_, which the constructor leaves
\* unset (lines 17-20), may hold before the first evaluation
UnsetDistances == {FInt(-1), FInt(2)}

\* the step lengths and the speeds of the loose vertex
TimeSteps == {1}
VertexSpeeds == {-1, 1}

\* the calls made on a constructed problem
ProblemOps == {"DistanceBarrierRBProblem", "simulation_step", "take_step", "state"}

\* construction and settings: the bracket at rest, the loose vertex inside
\* it with a vertical speed
DistanceBarrierRBProblem ==
    /\ fn_op = "none"
    /\ \E p \in CornerProblems : \E y \in InsideHeights \ {0} :
           \E v \in VertexSpeeds : \E unset \in UnsetDistances :
               /\ fn_in' = p
               /\ fn_out' = [pose |-> CornerPose(y), pose_prev |-> CornerPose(y),
                             velocity |-> <<0, 0, 0, 0, v, 0>>,
                             debug_min_distance_ |-> unset,
                             evaluated |-> <<>>, evaluated_at |-> <<>>,
                             base_result |-> FALSE, result |-> FALSE,
                             json |-> [rigid_bodies |-> <<>>]]
    /\ fn_op' = "DistanceBarrierRBProblem"
    /\ UNCHANGED <<state_vars, toi_vars>>

\* lines 44-64; the step keeps the loose vertex inside the bracket
simulation_step ==
    /\ fn_op \in ProblemOps
    /\ \E time_step \in TimeSteps :
           /\ fn_out.pose[5] + time_step * fn_out.velocity[5] \in InsideHeights
           /\ fn_out' = rb_simulation_step(fn_in, fn_out, time_step)
    /\ fn_op' = "simulation_step"
    /\ UNCHANGED <<fn_in, state_vars, toi_vars>>

\* lines 66-77, with the sigma the solver settled on
take_step ==
    /\ fn_op \in ProblemOps
    /\ \E time_step \in TimeSteps : \E y \in InsideHeights :
           fn_out' = rb_take_step(fn_in, fn_out,
                                  poses_to_dofs(fn_in, CornerPose(y)), time_step)
    /\ fn_op' = "take_step"
    /\ UNCHANGED <<fn_in, state_vars, toi_vars>>

\* lines 33-42
call_state ==
    /\ fn_op \in ProblemOps
    /\ fn_out' = [fn_out EXCEPT !.json = state(fn_out)]
    /\ fn_op' = "state"
    /\ UNCHANGED <<fn_in, state_vars, toi_vars>>

BarrierProblemNext ==
    \/ DistanceBarrierRBProblem
    \/ simulation_step
    \/ take_step
    \/ call_state

SpecBarrierProblem == Init /\ [][BarrierProblemNext]_vars

\* the most recent distance evaluation is the one whose distances the object
\* exports: none was made since
DistancesEvaluated ==
    /\ fn_op = "state"
    /\ fn_out.evaluated_at # <<>>

\* C22: the JSON of state() always contains the key min_distance; it is null
\* exactly when the most recent distance evaluation (of simulation_step or
\* take_step) found no candidate pairs, and otherwise the minimum of that
\* evaluation's candidate distances
C22_MinDistanceExported ==
    fn_op = "state" =>
        /\ "min_distance" \in DOMAIN fn_out.json
        /\ DistancesEvaluated =>
               /\ fn_out.json.min_distance = JsonNull <=> fn_out.evaluated = <<>>
               /\ fn_out.evaluated # <<>> =>
                      fn_out.json.min_distance = minCoeff(fn_out.evaluated)

\* state() exported after an evaluation that found two candidates, the
\* nearer at distance 1
C22_Witness ==
    /\ DistancesEvaluated
    /\ Len(fn_out.evaluated) = 2
    /\ fn_out.json.min_distance = FInt(1)

\* the candidate distances at the pose the step proposes, and whether the
\* least of them is within min_distance
CandidatesAtCandidatePose ==
    debug_compute_distances(fn_in, poses_to_dofs(fn_in, rb_poses_t1(fn_out)))

CloseAtCandidatePose ==
    /\ CandidatesAtCandidatePose # <<>>
    /\ ~FracLess(FInt(fn_in.min_distance), minCoeff(CandidatesAtCandidatePose))

\* C29: simulation_step returns true whenever the base step returned true,
\* true as well whenever candidates exist and their minimum distance at the
\* candidate pose is <= min_distance, and false only when the base step
\* returned false and there are no candidates or the minimum distance is
\* > min_distance
C29_StepOnlyAddsCollisions ==
    fn_op = "simulation_step" =>
        /\ fn_out.base_result => fn_out.result
        /\ CloseAtCandidatePose => fn_out.result
        /\ ~fn_out.result => (~fn_out.base_result /\ ~CloseAtCandidatePose)

====
